---- MODULE Spec2Model ----
(***************************************************************************)
(* Blob identity tracker (CVProcessor, src/services/cvProcessor.ts) and    *)
(* frame export driver (runRender, src/components/BlobTracker.tsx).        *)
(*                                                                         *)
(* Positions are integers in output (full-resolution) pixels.  Euclidean   *)
(* distances are compared through their squares, which orders them exactly *)
(* as Math.hypot does for the integer coordinates used here.  Timestamps   *)
(* are milliseconds (Date.now()).                                          *)
(***************************************************************************)
EXTENDS Integers, Sequences, FiniteSets, TLC

\* ------------------------------------------------------------------------
\* Program constants
\* ------------------------------------------------------------------------
MAX_TRACKING_DISTANCE_BASE == 100
BLOB_TIMEOUT == 500

\* ------------------------------------------------------------------------
\* Bounds of the model
\* ------------------------------------------------------------------------
\* Date.now() never exceeds MaxNow in the explored behaviours.
MaxNow == 1600
\* At most MaxContours contours are found in one frame.
MaxContours == 2
\* The id counter is explored up to MaxBlobId + 1.
MaxBlobId == 3
\* The TRAIL LENGTH setting ranges over 0..MaxHistoryLength.
MaxHistoryLength == 1

\* Time that passes between two processFrame calls.
ClockSteps == {500, 600}

\* ------------------------------------------------------------------------
\* Inputs: contours reported by the vision backend (processing space)
\* ------------------------------------------------------------------------
Rect(x, y, a) == [x |-> x, y |-> y, width |-> 20, height |-> 20, area |-> a]

\* boundingRect / contourArea of the regions that can be detected.  Centres
\* (10,10), (60,10), (110,10): at scale 1 the centres (10,10) and (110,10)
\* are exactly 100 apart and (60,10) is equidistant from both.
Contours == { Rect(0, 0, 150), Rect(50, 0, 150), Rect(100, 0, 150),
              Rect(0, 0, 50) }

ContourLists == UNION { [1..n -> Contours] : n \in 0..MaxContours }

\* (width, height, scaleFactor) of a call: downscaled preview of a 960x540
\* source, and full-resolution processing of the same source.
CallShapes == { [width |-> 480, height |-> 270, scaleFactor |-> 2],
                [width |-> 960, height |-> 540, scaleFactor |-> 1] }

\* TrackerSettings fields read by processFrame's extraction and tracking.
SettingsSet == [minArea : {100}, historyLength : 0..MaxHistoryLength]

\* ------------------------------------------------------------------------
\* State
\* ------------------------------------------------------------------------
VARIABLES
  windowCv,        \* window.cv is loaded
  cv,              \* CVProcessor.cv is set
  src,             \* CVProcessor.src (and the other Mats) are allocated
  lastDimensions,  \* CVProcessor.lastDimensions
  nextBlobId,      \* CVProcessor.nextBlobId
  activeBlobs,     \* CVProcessor.activeBlobs: entries in insertion order
  clock,           \* Date.now()
  issuedIds,       \* history: every id handed out by nextBlobId++, in order
  call,            \* history: the last CVProcessor call, its inputs and result
  videoFile,       \* App.videoFile is set
  renderState,     \* App.renderState
  settings,        \* App.settings
  hasDownload,     \* App.downloadUrl is set
  loading,         \* duration of the file whose metadata is still loading
  videoLoaded,     \* BlobTracker.videoLoaded
  duration,        \* vid.duration, in half frames (1/60 s)
  requestFrame,    \* the canvas track has requestFrame()
  supported,       \* the types MediaRecorder.isTypeSupported accepts
  runs,            \* the runRender invocations, in order of start
  effectRun,       \* run whose cleanup the render effect holds (0: none)
  seekEvents,      \* targets of the seeks whose 'seeked' has not fired
  vidTime,         \* vid.currentTime as a frame index
  completions      \* history: the onRenderComplete calls, in order

trackerVars == <<windowCv, cv, src, lastDimensions, nextBlobId, activeBlobs,
                 clock, issuedIds, call>>

\* What the browser offers.
envVars == <<requestFrame, supported>>

appVars == <<videoFile, renderState, settings, hasDownload, loading,
             videoLoaded, duration, envVars, runs, effectRun,
             seekEvents, vidTime, completions>>

vars == <<windowCv, cv, src, lastDimensions, nextBlobId, activeBlobs,
          clock, issuedIds, call, videoFile, renderState, settings,
          hasDownload, loading, videoLoaded, duration, envVars, runs,
          effectRun, seekEvents, vidTime, completions>>

\* ------------------------------------------------------------------------
\* Map<number, DetectedBlob> with insertion order
\* ------------------------------------------------------------------------
MapKeys(m) == { m[i].key : i \in 1..Len(m) }

MapHas(m, k) == k \in MapKeys(m)

MapGet(m, k) == m[CHOOSE i \in 1..Len(m) : m[i].key = k].val

\* Map.set: an existing key keeps its position, a new key goes last.
MapSet(m, k, v) ==
  IF MapHas(m, k)
  THEN [i \in 1..Len(m) |-> IF m[i].key = k THEN [key |-> k, val |-> v] ELSE m[i]]
  ELSE Append(m, [key |-> k, val |-> v])

\* ------------------------------------------------------------------------
\* processFrame, step 3: extract and scale coordinates
\* ------------------------------------------------------------------------
RealAreaLinear(contour, scaleFactor) == contour.area * scaleFactor

\* const realArea = area * (scaleFactor * scaleFactor)
RealArea(contour, scaleFactor) == contour.area * (scaleFactor * scaleFactor)

PassesMinAreaUnscaled(contour, st, scaleFactor) ==
  contour.area > st.minArea

PassesMinArea(contour, st, scaleFactor) ==
  RealArea(contour, scaleFactor) > st.minArea

ToCandidate(contour, scaleFactor) ==
  [x |-> (contour.x + contour.width \div 2) * scaleFactor,
   y |-> (contour.y + contour.height \div 2) * scaleFactor,
   w |-> contour.width * scaleFactor,
   h |-> contour.height * scaleFactor,
   area |-> RealArea(contour, scaleFactor)]

RECURSIVE ExtractFrom(_, _, _, _)
ExtractFrom(contours, i, st, scaleFactor) ==
  IF i > Len(contours) THEN << >>
  ELSE LET rest == ExtractFrom(contours, i + 1, st, scaleFactor)
       IN IF PassesMinArea(contours[i], st, scaleFactor)
          THEN << ToCandidate(contours[i], scaleFactor) >> \o rest
          ELSE rest

CurrentFrameBlobs(contours, st, scaleFactor) ==
  ExtractFrom(contours, 1, st, scaleFactor)

\* ------------------------------------------------------------------------
\* processFrame, step 4: tracking
\* ------------------------------------------------------------------------
Max(a, b) == IF a > b THEN a ELSE b

MaxDistTenfold(scaleFactor) ==
  10 * MAX_TRACKING_DISTANCE_BASE * Max(1, scaleFactor)

MaxDist(scaleFactor) == MAX_TRACKING_DISTANCE_BASE * Max(1, scaleFactor)

DistSq(ax, ay, bx, by) == (ax - bx) * (ax - bx) + (ay - by) * (ay - by)

CloserOrEqual(distSq, minDistSq) == distSq <= minDistSq

\* dist < minDist
Closer(distSq, minDistSq) == distSq < minDistSq

\* Takes the first unassigned blob within the radius.
RECURSIVE FindClosestFirstFit(_, _, _, _, _, _)
FindClosestFirstFit(blobs, i, newBlob, assignedIds, closestId, minDistSq) ==
  IF i > Len(blobs) THEN closestId
  ELSE LET id == blobs[i].key
           existingBlob == blobs[i].val
           distSq == DistSq(newBlob.x, newBlob.y, existingBlob.x, existingBlob.y)
       IN IF id \notin assignedIds /\ distSq < minDistSq
          THEN id
          ELSE FindClosestFirstFit(blobs, i + 1, newBlob, assignedIds,
                                   closestId, minDistSq)

\* Takes the closest blob within the radius, assigned or not.
RECURSIVE FindClosestAmongAll(_, _, _, _, _, _)
FindClosestAmongAll(blobs, i, newBlob, assignedIds, closestId, minDistSq) ==
  IF i > Len(blobs) THEN closestId
  ELSE LET id == blobs[i].key
           existingBlob == blobs[i].val
           distSq == DistSq(newBlob.x, newBlob.y, existingBlob.x, existingBlob.y)
       IN IF distSq < minDistSq
          THEN FindClosestAmongAll(blobs, i + 1, newBlob, assignedIds, id,
                                   distSq)
          ELSE FindClosestAmongAll(blobs, i + 1, newBlob, assignedIds,
                                   closestId, minDistSq)

\* The inner activeBlobs.forEach: returns closestId (-1 when none).
RECURSIVE FindClosest(_, _, _, _, _, _)
FindClosest(blobs, i, newBlob, assignedIds, closestId, minDistSq) ==
  IF i > Len(blobs) THEN closestId
  ELSE LET id == blobs[i].key
           existingBlob == blobs[i].val
           distSq == DistSq(newBlob.x, newBlob.y, existingBlob.x, existingBlob.y)
       IN IF id \in assignedIds
          THEN FindClosest(blobs, i + 1, newBlob, assignedIds, closestId, minDistSq)
          ELSE IF Closer(distSq, minDistSq)
               THEN FindClosest(blobs, i + 1, newBlob, assignedIds, id, distSq)
               ELSE FindClosest(blobs, i + 1, newBlob, assignedIds, closestId, minDistSq)

ShiftHistoryNewest(history, historyLength) ==
  IF Len(history) > historyLength
  THEN SubSeq(history, 1, Len(history) - 1)
  ELSE history

\* if (history.length > settings.historyLength) history.shift();
ShiftHistory(history, historyLength) ==
  IF Len(history) > historyLength THEN Tail(history) ELSE history

\* The blob stored for a matched candidate.
Updated(existing, newBlob, st, now) ==
  [id |-> existing.id,
   x |-> newBlob.x, y |-> newBlob.y, w |-> newBlob.w, h |-> newBlob.h,
   area |-> newBlob.area,
   lastSeen |-> now,
   history |-> ShiftHistory(Append(existing.history,
                                   [x |-> existing.x, y |-> existing.y]),
                            st.historyLength),
   visualX |-> existing.visualX,
   visualY |-> existing.visualY]

NewEntityUnplaced(newId, newBlob, now) ==
  [id |-> newId,
   x |-> newBlob.x, y |-> newBlob.y, w |-> newBlob.w, h |-> newBlob.h,
   area |-> newBlob.area,
   lastSeen |-> now,
   history |-> << >>,
   visualX |-> 0,
   visualY |-> 0]

\* The blob stored for an unmatched candidate.
NewEntity(newId, newBlob, now) ==
  [id |-> newId,
   x |-> newBlob.x, y |-> newBlob.y, w |-> newBlob.w, h |-> newBlob.h,
   area |-> newBlob.area,
   lastSeen |-> now,
   history |-> << >>,
   visualX |-> newBlob.x,
   visualY |-> newBlob.y]

NewIdFromSize(blobs, next) == Len(blobs) + 1

\* const newId = this.nextBlobId++  (the value of newId)
NewId(blobs, next) == next

\* One iteration of currentFrameBlobs.forEach on tracking state
\* ts = [activeBlobs, nextBlobId, assignedIds, trackedBlobs] and the
\* history of the iterations (issued: ids created, log: one entry per
\* candidate with the map and assignedIds it was matched against).
TrackOne(ts, newBlob, st, maxDist, now) ==
  LET closestId == FindClosest(ts.activeBlobs, 1, newBlob, ts.assignedIds,
                               -1, maxDist * maxDist)
      entry == [cand |-> newBlob, before |-> ts.activeBlobs,
                assigned |-> ts.assignedIds, maxDist |-> maxDist,
                closestId |-> closestId]
  IN IF closestId # -1
     THEN LET updated == Updated(MapGet(ts.activeBlobs, closestId), newBlob,
                                 st, now)
          IN [activeBlobs |-> MapSet(ts.activeBlobs, closestId, updated),
              nextBlobId |-> ts.nextBlobId,
              assignedIds |-> ts.assignedIds \cup {closestId},
              trackedBlobs |-> Append(ts.trackedBlobs, updated),
              issued |-> ts.issued,
              log |-> Append(ts.log, entry @@ [newId |-> -1])]
     ELSE LET newId == NewId(ts.activeBlobs, ts.nextBlobId)
          IN [activeBlobs |-> MapSet(ts.activeBlobs, newId,
                                     NewEntity(newId, newBlob, now)),
              nextBlobId |-> ts.nextBlobId + 1,
              assignedIds |-> ts.assignedIds,
              trackedBlobs |-> Append(ts.trackedBlobs,
                                      NewEntity(newId, newBlob, now)),
              issued |-> Append(ts.issued, newId),
              log |-> Append(ts.log, entry @@ [newId |-> newId])]

RECURSIVE TrackFrom(_, _, _, _, _, _)
TrackFrom(ts, cands, i, st, maxDist, now) ==
  IF i > Len(cands) THEN ts
  ELSE TrackFrom(TrackOne(ts, cands[i], st, maxDist, now),
                 cands, i + 1, st, maxDist, now)

IsStaleOrAtTimeout(now, blob) == now - blob.lastSeen >= BLOB_TIMEOUT

\* now - blob.lastSeen > BLOB_TIMEOUT
IsStale(now, blob) == now - blob.lastSeen > BLOB_TIMEOUT

\* Deletes every blob that was not seen before now.
PruneSeenNow(blobs, now) ==
  LET Earlier(entry) == entry.val.lastSeen < now
  IN SelectSeq(blobs, Earlier)

\* Deletes the stale blobs and marks the others as seen now.
PruneRefreshing(blobs, now) ==
  LET Fresh(entry) == ~IsStale(now, entry.val)
      kept == SelectSeq(blobs, Fresh)
  IN [i \in 1..Len(kept) |-> [kept[i] EXCEPT !.val.lastSeen = now]]

RECURSIVE Prune(_, _)
Prune(blobs, now) ==
  IF blobs = << >> THEN << >>
  ELSE IF IsStale(now, Head(blobs).val)
       THEN Prune(Tail(blobs), now)
       ELSE << Head(blobs) >> \o Prune(Tail(blobs), now)

\* Steps 3 and 4 of processFrame on the tracker state (blobs, next).
Tracking(blobs, next, contours, st, scaleFactor, now) ==
  LET ts == TrackFrom([activeBlobs |-> blobs, nextBlobId |-> next,
                       assignedIds |-> {}, trackedBlobs |-> << >>,
                       issued |-> << >>, log |-> << >>],
                      CurrentFrameBlobs(contours, st, scaleFactor), 1,
                      st, MaxDist(scaleFactor), now)
  IN [ts EXCEPT !.activeBlobs = Prune(ts.activeBlobs, now)]

\* ------------------------------------------------------------------------
\* CVProcessor operations
\* ------------------------------------------------------------------------
NoCall == [op |-> "none", outcome |-> "none", scaleFactor |-> 1,
           historyLength |-> 0, minArea |-> 0, found |-> << >>, now |-> 0,
           ret |-> << >>, log |-> << >>, drawn |-> << >>, by |-> "none"]

\* ensureMats(width, height) followed by the `if (!this.src)` test:
\* the Mats are kept when the size is unchanged, otherwise released
\* (cleanup) and allocated again; a failed allocation leaves src null.
EnsureMats(width, height, allocOk) ==
  IF src /\ lastDimensions = <<width, height>>
  THEN [src |-> TRUE, lastDimensions |-> lastDimensions]
  ELSE IF allocOk
       THEN [src |-> TRUE, lastDimensions |-> <<width, height>>]
       ELSE [src |-> FALSE, lastDimensions |-> <<0, 0>>]

LerpFactorInverted(drift) == 10 + drift * 7

\* if (blob.visualX === undefined) ...; lerpFactor = 0.8 - drift * 0.7, in
\* hundredths for a drift given in tenths.
LerpFactor(drift) == 80 - drift * 7

\* a * b / 100 rounded towards zero
Scaled(a, b) ==
  IF a * b >= 0 THEN (a * b) \div 100 ELSE -((-(a * b)) \div 100)

\* visual + (true - visual) * lerpFactor, in whole pixels.  Exact when the
\* product is a multiple of 100, which includes a blob drawn at its true
\* position.
Smooth(visual, true, drift) ==
  visual + Scaled(true - visual, LerpFactor(drift))

\* Also moves the blob to the position it is displayed at.
DrawOverlaysSnapping(blobs, tracked, st) ==
  [i \in 1..Len(blobs) |->
     IF \E k \in 1..Len(tracked) : tracked[k].id = blobs[i].key
     THEN [blobs[i] EXCEPT
             !.val.visualX = Smooth(@, blobs[i].val.x, st.drift),
             !.val.visualY = Smooth(@, blobs[i].val.y, st.drift),
             !.val.x = Smooth(blobs[i].val.visualX, @, st.drift),
             !.val.y = Smooth(blobs[i].val.visualY, @, st.drift)]
     ELSE blobs[i]]

\* drawOverlays(ctx, blobs, ...): the state it leaves behind.  The objects
\* in blobs are the objects held by the map, except an object that a later
\* candidate of the same call replaced; drawing updates visualX and
\* visualY of each object in place.
DrawOverlays(blobs, tracked, st) ==
  [i \in 1..Len(blobs) |->
     IF \E k \in 1..Len(tracked) : tracked[k].id = blobs[i].key
     THEN [blobs[i] EXCEPT
             !.val.visualX = Smooth(@, blobs[i].val.x, st.drift),
             !.val.visualY = Smooth(@, blobs[i].val.y, st.drift)]
     ELSE blobs[i]]

\* sin(x) in hundredths for x in thousandths of a radian, from 32 samples
\* of one period.
SinTable ==
  << 0, 20, 38, 56, 71, 83, 92, 98, 100, 98, 92, 83, 71, 56, 38, 20,
     0, -20, -38, -56, -71, -83, -92, -98, -100, -98, -92, -83, -71, -56,
     -38, -20 >>

Sin100(mrad) == SinTable[(((mrad * 32) \div 6283) % 32) + 1]

Cos100(mrad) == Sin100(mrad + 1571)

\* (Math.sin(time * 0.01 + blob.id) + Math.cos(time * 0.05)) *
\* settings.jitter * 20, for a jitter given in tenths.
NoiseXOfClock(time, id, jitter) ==
  ((Sin100(clock * 10 + id * 1000) + Cos100(clock * 50)) * jitter * 20)
    \div 1000

NoiseX(time, id, jitter) ==
  ((Sin100(time * 10 + id * 1000) + Cos100(time * 50)) * jitter * 20)
    \div 1000

\* (Math.cos(time * 0.01 + blob.id) + Math.sin(time * 0.03)) *
\* settings.jitter * 20
NoiseY(time, id, jitter) ==
  ((Cos100(time * 10 + id * 1000) + Sin100(time * 30)) * jitter * 20)
    \div 1000

\* The hue of the colour, -1 for settings.baseColor.
Colour(time, id, st) ==
  IF st.colorMode = "cycle" THEN (time \div 10 + id * 30) % 360
  ELSE IF st.colorMode = "random" THEN ((id * 137508) \div 1000) % 360
  ELSE -1

\* What drawOverlays(ctx, blobs, w, h, time) draws for each blob of the
\* list: the display position before and after the update, the drawn
\* position and the colour.
Drawn(tracked, st, time) ==
  [i \in 1..Len(tracked) |->
     LET b == tracked[i]
         vx == Smooth(b.visualX, b.x, st.drift)
         vy == Smooth(b.visualY, b.y, st.drift)
     IN [id |-> b.id, x |-> b.x, y |-> b.y,
         prevX |-> b.visualX, prevY |-> b.visualY,
         visualX |-> vx, visualY |-> vy,
         drawX |-> vx + NoiseX(time, b.id, st.jitter),
         drawY |-> vy + NoiseY(time, b.id, st.jitter),
         colour |-> Colour(time, b.id, st),
         time |-> time, jitter |-> st.jitter, drift |-> st.drift,
         colorMode |-> st.colorMode]]

\* The caller of processFrame: whether drawOverlays follows and with which
\* time argument.  NoDraw is a bare call of the interface.
NoDraw == [on |-> FALSE, time |-> 0, by |-> "api"]

\* processFrame(ctx, width, height, settings, scaleFactor), called dt ms
\* after the previous call, followed by drawOverlays on its result when
\* draw is set.  env is what the backend does in this call: "ok",
\* "allocFail" (Mat allocation throws), "readFail" (getImageData throws).
FrameStep(shape, contours, st, dt, env, draw) ==
  LET now == clock + dt
      cvNow == cv \/ windowCv
      mats == EnsureMats(shape.width, shape.height, env # "allocFail")
      early(outcome) == [op |-> "processFrame", outcome |-> outcome,
                         scaleFactor |-> shape.scaleFactor,
                         historyLength |-> st.historyLength,
                         minArea |-> st.minArea, found |-> << >>,
                         now |-> now, ret |-> << >>, log |-> << >>,
                         drawn |-> << >>, by |-> draw.by]
  IN /\ clock' = now
     /\ cv' = cvNow
     /\ UNCHANGED windowCv
     /\ IF ~cvNow
        THEN /\ call' = early("noCv")
             /\ UNCHANGED <<src, lastDimensions, nextBlobId, activeBlobs, issuedIds>>
        ELSE /\ src' = mats.src
             /\ lastDimensions' = mats.lastDimensions
             /\ IF ~mats.src
                THEN /\ call' = early("noMats")
                     /\ UNCHANGED <<nextBlobId, activeBlobs, issuedIds>>
                ELSE IF env = "readFail"
                THEN /\ call' = early("readFail")
                     /\ UNCHANGED <<nextBlobId, activeBlobs, issuedIds>>
                ELSE \E t \in { Tracking(activeBlobs, nextBlobId, contours,
                                         st, shape.scaleFactor, now) } :
                        /\ activeBlobs' = IF draw.on
                                          THEN DrawOverlays(t.activeBlobs,
                                                            t.trackedBlobs, st)
                                          ELSE t.activeBlobs
                        /\ nextBlobId' = t.nextBlobId
                        /\ issuedIds' = issuedIds \o t.issued
                        /\ call' = [op |-> "processFrame", outcome |-> "tracked",
                                    scaleFactor |-> shape.scaleFactor,
                                    historyLength |-> st.historyLength,
                                    minArea |-> st.minArea,
                                    found |-> contours,
                                    now |-> now, ret |-> t.trackedBlobs,
                                    log |-> t.log,
                                    drawn |-> IF draw.on
                                              THEN Drawn(t.trackedBlobs, st,
                                                         draw.time)
                                              ELSE << >>,
                                    by |-> draw.by]

DoProcessFrame(shape, contours, st, dt, env) ==
  FrameStep(shape, contours, st, dt, env, NoDraw)

\* cleanup(): releases the Mats; the tracking state is not touched.
DoCleanup ==
  LET cvNow == cv \/ windowCv
  IN /\ cv' = cvNow
     /\ IF cvNow
        THEN /\ src' = FALSE
             /\ lastDimensions' = <<0, 0>>
        ELSE UNCHANGED <<src, lastDimensions>>
     /\ call' = [NoCall EXCEPT !.op = "cleanup", !.now = clock]

\* ------------------------------------------------------------------------
\* Initial state: a new CVProcessor in a freshly mounted App
\* ------------------------------------------------------------------------
DefaultSettings ==
  [minArea |-> 100, historyLength |-> MaxHistoryLength, jitter |-> 1,
   drift |-> 2, showVideo |-> TRUE, colorMode |-> "solid"]

InitProcessor ==
  /\ cv = FALSE
  /\ src = FALSE
  /\ lastDimensions = <<0, 0>>
  /\ nextBlobId = 1
  /\ activeBlobs = << >>
  /\ clock = 0
  /\ issuedIds = << >>
  /\ call = NoCall

InitTracker == windowCv = FALSE /\ InitProcessor

InitApp ==
  /\ videoFile = FALSE
  /\ renderState = "idle"
  /\ settings = DefaultSettings
  /\ hasDownload = FALSE
  /\ loading = 0
  /\ videoLoaded = FALSE
  /\ duration = 0
  /\ runs = << >>
  /\ effectRun = 0
  /\ seekEvents = << >>
  /\ vidTime = 0
  /\ completions = << >>

Init ==
  /\ InitTracker
  /\ InitApp
  /\ requestFrame = TRUE
  /\ supported = {"video/webm;codecs=vp9", "video/webm"}

\* ------------------------------------------------------------------------
\* The tracker driven through its public interface
\* ------------------------------------------------------------------------
\* The OpenCV script finishes loading.
CvLoaded ==
  /\ ~windowCv
  /\ windowCv' = TRUE
  /\ UNCHANGED <<cv, src, lastDimensions, nextBlobId, activeBlobs, clock,
                 issuedIds, call>>
  /\ UNCHANGED appVars

ProcessFrame ==
  \E shape \in CallShapes, st \in SettingsSet, dt \in ClockSteps :
    /\ clock + dt <= MaxNow
    /\ \E contours \in ContourLists :
         /\ nextBlobId + Len(contours) - 1 <= MaxBlobId
         /\ DoProcessFrame(shape, contours, st, dt, "ok")
    /\ UNCHANGED appVars

ProcessFrameFails ==
  \E shape \in CallShapes, st \in SettingsSet, dt \in ClockSteps,
     env \in {"allocFail", "readFail"} :
    /\ clock + dt <= MaxNow
    /\ DoProcessFrame(shape, << >>, st, dt, env)
    /\ UNCHANGED appVars

\* Also restarts the id counter.
CleanupResetting ==
  /\ DoCleanup
  /\ nextBlobId' = 1
  /\ UNCHANGED <<windowCv, activeBlobs, clock, issuedIds>>
  /\ UNCHANGED appVars

Cleanup ==
  /\ DoCleanup
  /\ UNCHANGED <<windowCv, nextBlobId, activeBlobs, clock, issuedIds>>
  /\ UNCHANGED appVars

Next == CvLoaded \/ ProcessFrame \/ ProcessFrameFails \/ Cleanup

Spec == Init /\ [][Next]_vars

\* ------------------------------------------------------------------------
\* The tracker on full-resolution footage with regions far apart
\* ------------------------------------------------------------------------
\* Regions with centres (10,10), (600,600) and (15,12).
FarContours == { Rect(0, 0, 150), Rect(590, 590, 150), Rect(5, 2, 150) }

FarContourLists == UNION { [1..n -> FarContours] : n \in 0..MaxContours }

\* processFrame(ctx, 1920, 1080, settings, 1)
FullShape == [width |-> 1920, height |-> 1080, scaleFactor |-> 1]

ProcessFarFrame ==
  \E st \in SettingsSet, dt \in ClockSteps :
    /\ clock + dt <= MaxNow
    /\ \E contours \in FarContourLists :
         /\ nextBlobId + Len(contours) - 1 <= MaxBlobId
         /\ DoProcessFrame(FullShape, contours, st, dt, "ok")
    /\ UNCHANGED appVars

NextFar == CvLoaded \/ ProcessFarFrame \/ Cleanup

SpecFar == Init /\ [][NextFar]_vars

\* ------------------------------------------------------------------------
\* The export driver: App, the render effect of BlobTracker and runRender
\* ------------------------------------------------------------------------
\* At most MaxRuns runRender invocations are started in a behaviour.
MaxRuns == 2

\* At most MaxPendingSeeks 'seeked' events are outstanding: a new seek
\* aborts the oldest seeks beyond that.
MaxPendingSeeks == 1

\* vid.duration of the files that can be uploaded, in half frames of the
\* 30 fps export: 2.5 frames.
Durations == {5}

\* The clips of an export that is left alone: 1.5 frames, 6 frames
\* (0.2 s) and 60 frames (2.0 s).
LongDurations == {3, 12, 120}

\* What findContours reports for frame n of the uploaded footage: a region
\* at (10,10) that is missing in every third frame.
VideoFrame(n) == IF n % 3 = 1 THEN << >> ELSE << Rect(0, 0, 150) >>

\* Date.now() at the processFrame call of an export iteration, given how
\* the seek wait ended: a 'seeked' event arrives within the same
\* millisecond as the previous call, the timeout takes more than 500 ms.
\* The clock stops at MaxNow.
ExportClockStep(wake) ==
  IF wake = "timeout" /\ clock + 600 <= MaxNow THEN 600 ELSE 0

\* currentTime * 1000 after n additions of frameDuration
FrameMillis(n) == (n * 1000) \div 30

\* processFrame(ctx, dimensions.w, dimensions.h, settings, 1)
ExportShape == [width |-> 960, height |-> 540, scaleFactor |-> 1]

\* currentTime is the binary64 sum of n terms 1/30 (currentTime +=
\* frameDuration).  AccBelow holds the n up to 60 for which that sum is
\* smaller than the binary64 value of n/30: six terms give
\* 0.19999999999999998 < 0.2, sixty terms give 2.0000000000000004.
AccBelow == {6, 7, 12, 13, 14, 15} \cup (23..31)

\* currentTime < duration, for currentTime after n additions and a
\* duration of d half frames.
TimeBelow(n, d) == 2 * n < d \/ (2 * n = d /\ n \in AccBelow)

Min(a, b) == IF a < b THEN a ELSE b

\* Math.round(x) for x = num / den >= 0
Round(num, den) == (2 * num + den) \div (2 * den)

ProgressRemaining(n, d) == Min(100, Round(100 * (d - 2 * n), d))

\* Math.min(100, Math.round((currentTime / duration) * 100))
ProgressValue(n, d) == Min(100, Round(100 * (2 * n), d))

LoopPcs == {"seekWait", "process", "frameWait", "yield"}

\* The export formats in order of preference.
Mp4Types ==
  << "video/mp4; codecs=avc1.42E01E, mp4a.40.2", "video/mp4; codecs=h264",
     "video/mp4; codecs=avc1", "video/mp4" >>

WebmVp9 == "video/webm;codecs=vp9"

Webm == "video/webm"

\* mp4Types.find(type => MediaRecorder.isTypeSupported(type)), as an index
\* (0: undefined).
RECURSIVE FindSupported(_, _)
FindSupported(sup, i) ==
  IF i > Len(Mp4Types) THEN 0
  ELSE IF Mp4Types[i] \in sup THEN i
  ELSE FindSupported(sup, i + 1)

\* Determine Export Format: mimeType and extension for a sink that
\* supports the types in sup.
Negotiate(sup) ==
  LET supportedMp4 == FindSupported(sup, 1)
  IN IF supportedMp4 # 0
     THEN [mimeType |-> Mp4Types[supportedMp4], extension |-> "mp4"]
     ELSE IF WebmVp9 \in sup
     THEN [mimeType |-> WebmVp9, extension |-> "webm"]
     ELSE [mimeType |-> Webm, extension |-> "webm"]

\* new MediaRecorder(stream, { mimeType }) throws NotSupportedError for a
\* type the sink does not support.
RecorderAccepts(sup, mimeType) == mimeType \in sup

\* The closure state of a runRender invocation at its first await.  steps
\* is history: the side effects of the latest iteration, in the order in
\* which the loop body made them.
NewRun(st, d, paced, fmt) ==
  [cancelled |-> FALSE, cancelledAt |-> "none", pc |-> "seekWait",
   wake |-> "none", n |-> 0, duration |-> d, settings |-> st,
   paced |-> paced, progress |-> << >>, frames |-> 0, steps |-> << >>,
   mimeType |-> fmt.mimeType, extension |-> fmt.extension]

\* The cleanup ends the loop of the run on the spot.
CancelRunAborting(rs, r) ==
  IF r = 0 THEN rs
  ELSE [rs EXCEPT ![r].cancelled = TRUE,
                  ![r].cancelledAt = IF rs[r].cancelled THEN @ ELSE rs[r].pc,
                  ![r].pc = IF @ \in LoopPcs THEN "stopping" ELSE @]

\* return () => { cancelled = true; }
CancelRun(rs, r) ==
  IF r = 0 THEN rs
  ELSE [rs EXCEPT ![r].cancelled = TRUE,
                  ![r].cancelledAt = IF rs[r].cancelled THEN @ ELSE rs[r].pc]

\* vid.currentTime = t: the seek to frame t is pending, and of the
\* earlier seeks the latest limit - 1 still have their 'seeked' event
\* outstanding.
SeekToWithin(pending, t, limit) ==
  LET all == Append(pending, t)
  IN IF Len(all) > limit
     THEN SubSeq(all, Len(all) - limit + 1, Len(all))
     ELSE all

SeekTo(pending, t) == SeekToWithin(pending, t, MaxPendingSeeks)

\* The render effect is started by a commit with these dependencies.
Starts(state, loaded) == state = "rendering" /\ loaded

\* React commits new values of renderState, settings and videoLoaded (rs is
\* runs as the handler left it).  When a dependency of the render effect
\* changed, the cleanup of the previous effect runs and then the effect:
\* the guard, and runRender up to its first await (format negotiation,
\* new MediaRecorder, recorder.start, vid.currentTime = 0,
\* cvProcessor.cleanup(), first seek).  When the constructor throws,
\* runRender ends there with a rejected promise.
Commit(state, st, loaded, d, rs) ==
  /\ renderState' = state
  /\ settings' = st
  /\ videoLoaded' = loaded
  /\ duration' = d
  /\ IF <<state, st, loaded>> = <<renderState, settings, videoLoaded>>
     THEN /\ runs' = rs
          /\ UNCHANGED <<effectRun, seekEvents, vidTime, cv, src,
                         lastDimensions, call>>
     ELSE IF Starts(state, loaded)
     THEN /\ Len(rs) < MaxRuns
          /\ effectRun' = Len(rs) + 1
          /\ LET fmt == Negotiate(supported)
                 run == NewRun(st, d, requestFrame, fmt)
             IN IF RecorderAccepts(supported, fmt.mimeType)
                THEN /\ runs' = Append(CancelRun(rs, effectRun), run)
                     /\ seekEvents' = SeekTo(SeekTo(seekEvents, 0), 0)
                     /\ vidTime' = 0
                     /\ DoCleanup
                ELSE /\ runs' = Append(CancelRun(rs, effectRun),
                                       [run EXCEPT !.pc = "unsupported"])
                     /\ UNCHANGED <<seekEvents, vidTime, cv, src,
                                    lastDimensions, call>>
     ELSE /\ runs' = CancelRun(rs, effectRun)
          /\ effectRun' = 0
          /\ UNCHANGED <<seekEvents, vidTime, cv, src, lastDimensions, call>>

\* handleUpload with a file of duration d, and the video load effect of
\* BlobTracker.
UploadFile(d) ==
  /\ renderState # "rendering"
  /\ videoFile' = TRUE
  /\ hasDownload' = FALSE
  /\ loading' = d
  /\ Commit("idle", settings, FALSE, duration, runs)
  /\ UNCHANGED <<windowCv, nextBlobId, activeBlobs, clock, issuedIds,
                 envVars, completions>>

Upload == \E d \in Durations : UploadFile(d)

\* vid.onloadedmetadata
MetadataLoaded ==
  /\ loading # 0
  /\ loading' = 0
  /\ Commit(renderState, settings, TRUE, loading, runs)
  /\ UNCHANGED <<windowCv, nextBlobId, activeBlobs, clock, issuedIds,
                 videoFile, hasDownload, envVars, completions>>

\* handleGenerate (GENERATE OUTPUT is shown when not rendering and no
\* download is offered).
Generate ==
  /\ videoFile
  /\ renderState # "rendering"
  /\ ~hasDownload
  /\ Commit("rendering", settings, videoLoaded, duration, runs)
  /\ UNCHANGED <<windowCv, nextBlobId, activeBlobs, clock, issuedIds,
                 videoFile, hasDownload, loading, envVars, completions>>

\* The VIDEO: ON/OFF button, which stays enabled while rendering.
ToggleShowVideo ==
  /\ Commit(renderState, [settings EXCEPT !.showVideo = ~@], videoLoaded,
            duration, runs)
  /\ UNCHANGED <<windowCv, nextBlobId, activeBlobs, clock, issuedIds,
                 videoFile, hasDownload, loading, envVars, completions>>

\* A 'seeked' event of the seek to frame t is dispatched: every run that
\* waits for its seek is resumed.
Seeked ==
  \E k \in 1..Len(seekEvents) :
    /\ seekEvents' = SubSeq(seekEvents, 1, k - 1)
                      \o SubSeq(seekEvents, k + 1, Len(seekEvents))
    /\ runs' = [r \in 1..Len(runs) |->
                  IF runs[r].pc = "seekWait"
                  THEN [runs[r] EXCEPT !.pc = "process", !.wake = "seeked"]
                  ELSE runs[r]]
    /\ UNCHANGED trackerVars
    /\ UNCHANGED <<videoFile, renderState, settings, hasDownload, loading,
                   videoLoaded, duration, envVars, effectRun, vidTime,
                   completions>>

\* The 500 ms timeout of a seek wait fires first.
SeekTimeout ==
  \E r \in 1..Len(runs) :
    /\ runs[r].pc = "seekWait"
    /\ runs' = [runs EXCEPT ![r].pc = "process", ![r].wake = "timeout"]
    /\ UNCHANGED trackerVars
    /\ UNCHANGED <<videoFile, renderState, settings, hasDownload, loading,
                   videoLoaded, duration, envVars, effectRun, seekEvents,
                   vidTime, completions>>

\* Reports the progress after the increment of currentTime.
ReportedAfterIncrement(run) ==
  [run EXCEPT !.progress = Append(@, ProgressValue(run.n + 1, run.duration)),
              !.steps = Append(@, "progress"),
              !.n = @ + 1,
              !.pc = "yield"]

\* onRenderProgress(...); currentTime += frameDuration
Reported(run) ==
  [run EXCEPT !.progress = Append(@, ProgressValue(run.n, run.duration)),
              !.steps = Append(@, "progress"),
              !.n = @ + 1,
              !.pc = "yield"]

\* drawImage, processFrame and drawOverlays were made on the render canvas.
Composited(run) == [run EXCEPT !.wake = "none", !.steps = << "composite" >>]

\* track.requestFrame()
Submitted(run) ==
  [run EXCEPT !.frames = @ + 1, !.steps = Append(@, "requestFrame")]

\* The loop body after the seek wait, up to the next await: drawImage,
\* processFrame, drawOverlays, then requestFrame, the progress report and
\* the increment, or the wait for the automatic capture.
RunFrameIn(env) ==
  \E r \in 1..Len(runs) :
    /\ runs[r].pc = "process"
    /\ FrameStep(ExportShape, VideoFrame(runs[r].n), runs[r].settings,
                 ExportClockStep(runs[r].wake), env,
                 [on |-> TRUE, time |-> FrameMillis(runs[r].n),
                  by |-> "export"])
    /\ runs' = [runs EXCEPT ![r] =
                  IF runs[r].paced
                  THEN Reported(Submitted(Composited(runs[r])))
                  ELSE [Composited(runs[r]) EXCEPT !.pc = "frameWait"]]
    /\ UNCHANGED <<videoFile, renderState, settings, hasDownload, loading,
                   videoLoaded, duration, envVars, effectRun, seekEvents,
                   vidTime, completions>>

RunFrame == RunFrameIn("ok")

\* Without requestFrame: the 1000/60 ms timer fires, then the progress
\* report and the increment.
FrameTimer ==
  \E r \in 1..Len(runs) :
    /\ runs[r].pc = "frameWait"
    /\ runs' = [runs EXCEPT ![r] = Reported(runs[r])]
    /\ UNCHANGED trackerVars
    /\ UNCHANGED <<videoFile, renderState, settings, hasDownload, loading,
                   videoLoaded, duration, envVars, effectRun, seekEvents,
                   vidTime, completions>>

\* Reports a progress of 100 when the loop is left.
YieldReportingDone(limit) ==
  \E r \in 1..Len(runs) :
    /\ runs[r].pc = "yield"
    /\ IF TimeBelow(runs[r].n, runs[r].duration) /\ ~runs[r].cancelled
       THEN /\ runs' = [runs EXCEPT ![r].pc = "seekWait"]
            /\ vidTime' = runs[r].n
            /\ seekEvents' = SeekToWithin(seekEvents, runs[r].n, limit)
       ELSE /\ runs' = [runs EXCEPT ![r].pc = "stopping",
                                    ![r].progress = Append(@, 100)]
            /\ vidTime' = 0
            /\ seekEvents' = SeekToWithin(seekEvents, 0, limit)
    /\ UNCHANGED trackerVars
    /\ UNCHANGED <<videoFile, renderState, settings, hasDownload, loading,
                   videoLoaded, duration, envVars, effectRun,
                   completions>>

\* The setTimeout(0) yield ends and the loop condition is tested: the next
\* seek is requested, or the loop is left, the recorder stopped and the
\* video rewound.
\* limit - 1 is the number of earlier seeks whose 'seeked' event can still
\* be delivered after the new seek.
YieldWithin(limit) ==
  \E r \in 1..Len(runs) :
    /\ runs[r].pc = "yield"
    /\ IF TimeBelow(runs[r].n, runs[r].duration) /\ ~runs[r].cancelled
       THEN /\ runs' = [runs EXCEPT ![r].pc = "seekWait"]
            /\ vidTime' = runs[r].n
            /\ seekEvents' = SeekToWithin(seekEvents, runs[r].n, limit)
       ELSE /\ runs' = [runs EXCEPT ![r].pc = "stopping"]
            /\ vidTime' = 0
            /\ seekEvents' = SeekToWithin(seekEvents, 0, limit)
    /\ UNCHANGED trackerVars
    /\ UNCHANGED <<videoFile, renderState, settings, hasDownload, loading,
                   videoLoaded, duration, envVars, effectRun,
                   completions>>

Yield == YieldWithin(MaxPendingSeeks)

\* recorder.onstop: onRenderComplete(blob, extension), which is
\* handleRenderComplete.
RecorderStopped ==
  \E r \in 1..Len(runs) :
    /\ runs[r].pc = "stopping"
    /\ completions' = Append(completions,
                             [run |-> r, extension |-> runs[r].extension])
    /\ hasDownload' = TRUE
    /\ Commit("completed", settings, videoLoaded, duration,
              [runs EXCEPT ![r].pc = "done"])
    /\ UNCHANGED <<windowCv, nextBlobId, activeBlobs, clock, issuedIds,
                   videoFile, loading, envVars>>

\* A browser that records WebM.
InitExport ==
  /\ InitTracker
  /\ InitApp
  /\ requestFrame \in BOOLEAN
  /\ supported = {WebmVp9, Webm}

NextExport ==
  \/ CvLoaded
  \/ Upload
  \/ MetadataLoaded
  \/ Generate
  \/ ToggleShowVideo
  \/ Seeked
  \/ SeekTimeout
  \/ RunFrame
  \/ FrameTimer
  \/ Yield
  \/ RecorderStopped

SpecExport == InitExport /\ [][NextExport]_vars

\* ------------------------------------------------------------------------
\* An export that is left alone: one file is uploaded, GENERATE OUTPUT is
\* pressed and no control is touched afterwards
\* ------------------------------------------------------------------------
UploadOnce == ~videoFile /\ \E d \in LongDurations : UploadFile(d)

\* ctx.drawImage(vid, 0, 0) throws in an iteration (the decoder failed):
\* the exception leaves runRender, whose promise is rejected.
RunFrameThrows ==
  \E r \in 1..Len(runs) :
    /\ runs[r].pc = "process"
    /\ runs' = [runs EXCEPT ![r].pc = "threw"]
    /\ UNCHANGED trackerVars
    /\ UNCHANGED <<videoFile, renderState, settings, hasDownload, loading,
                   videoLoaded, duration, envVars, effectRun, seekEvents,
                   vidTime, completions>>

\* Sinks: none of the types, generic WebM only, WebM with VP9, and MP4
\* with the plain type only.
Sinks ==
  { { }, {Webm}, {WebmVp9, Webm}, {Mp4Types[4], WebmVp9, Webm},
    {Mp4Types[2], Mp4Types[4], Webm} }

InitUndisturbed ==
  /\ InitTracker
  /\ InitApp
  /\ requestFrame \in BOOLEAN
  /\ supported \in Sinks

NextUndisturbed ==
  \/ CvLoaded
  \/ UploadOnce
  \/ MetadataLoaded
  \/ Generate
  \/ Seeked
  \/ SeekTimeout
  \/ RunFrame
  \/ FrameTimer
  \/ Yield
  \/ RecorderStopped
  \/ RunFrameThrows

SpecUndisturbed == InitUndisturbed /\ [][NextUndisturbed]_vars

\* The browser delivers events and timers and runs continuations; the user
\* is not obliged to press anything.
Scheduled ==
  \/ MetadataLoaded
  \/ Seeked
  \/ SeekTimeout
  \/ RunFrame
  \/ FrameTimer
  \/ Yield
  \/ RecorderStopped

SpecUndisturbedFair == SpecUndisturbed /\ WF_vars(Scheduled)

\* ------------------------------------------------------------------------
\* The live preview: animate, and the sliders of the control panel
\* ------------------------------------------------------------------------
\* dimensions and previewScale before any metadata was loaded (640x360,
\* scale 1) and for the 960x540 footage (pW = 480, pH = 270, scale 2).
DefaultShape == [width |-> 640, height |-> 360, scaleFactor |-> 1]

PreviewShape == [width |-> 480, height |-> 270, scaleFactor |-> 2]

\* A region of the footage as the half-size preview canvas shows it.
Small(x, y) == [x |-> x, y |-> y, width |-> 10, height |-> 10, area |-> 38]

\* What findContours reports for the frame the playing video shows: the
\* region is absent, at (10,10) or at (60,10) of the footage.
PreviewFrames == { << >>, << Small(0, 0) >>, << Small(25, 0) >> }

\* Time between two processed animation frames: shorter or longer than
\* BLOB_TIMEOUT.
AnimateSteps == {400, 600}

\* animate(time): returns at once while rendering and idles until OpenCV
\* is ready; otherwise processFrame on the downscaled frame and
\* drawOverlays on its result.
AnimateOn(frames, steps, env) ==
  /\ renderState # "rendering"
  /\ windowCv
  /\ \E dt \in steps,
        contours \in (IF videoLoaded THEN frames ELSE { << >> }) :
       /\ clock + dt <= MaxNow
       /\ nextBlobId + Len(contours) - 1 <= MaxBlobId
       /\ FrameStep(IF duration = 0 THEN DefaultShape ELSE PreviewShape,
                    contours, settings, dt, env,
                    [on |-> TRUE, time |-> clock + dt, by |-> "preview"])
  /\ UNCHANGED appVars

Animate == AnimateOn(PreviewFrames, AnimateSteps, "ok")

\* The NOISE / JITTER and DRIFT / LAG sliders (tenths) and the colour mode
\* buttons: handleChange(key, value).
JitterValues == {0, 1}

DriftValues == {0, 10}

ColorModes == {"solid", "cycle", "random"}

ChangeSetting(st) ==
  /\ st # settings
  /\ Commit(renderState, st, videoLoaded, duration, runs)
  /\ UNCHANGED <<windowCv, nextBlobId, activeBlobs, clock, issuedIds,
                 videoFile, hasDownload, loading, envVars, completions>>

SetJitter ==
  /\ renderState # "rendering"
  /\ \E v \in JitterValues : ChangeSetting([settings EXCEPT !.jitter = v])

SetDrift ==
  /\ renderState # "rendering"
  /\ \E v \in DriftValues : ChangeSetting([settings EXCEPT !.drift = v])

SetColorMode ==
  \E v \in ColorModes : ChangeSetting([settings EXCEPT !.colorMode = v])

\* The first file is chosen.
UploadFirst == ~videoFile /\ Upload

NextPreview ==
  \/ CvLoaded
  \/ UploadFirst
  \/ MetadataLoaded
  \/ Animate
  \/ SetJitter
  \/ SetDrift
  \/ SetColorMode

SpecPreview == Init /\ [][NextPreview]_vars

\* ------------------------------------------------------------------------
\* A session: preview of a short clip, export, and the VIDEO button
\* ------------------------------------------------------------------------
\* vid.duration of the clip of the session, in half frames: 1.5 frames.
ShortDurations == {3}

UploadShort == ~videoFile /\ \E d \in ShortDurations : UploadFile(d)

\* Preview frames that show the region at (10,10), at most every 400 ms.
AnimateStill == AnimateOn({ << Small(0, 0) >> }, {400}, "ok")

\* VIDEO: ON/OFF is pressed during an export.
ToggleWhileRendering == renderState = "rendering" /\ ToggleShowVideo

\* OpenCV was loaded before the session began.
InitSession ==
  /\ windowCv = TRUE
  /\ InitProcessor
  /\ InitApp
  /\ requestFrame = TRUE
  /\ supported = {"video/webm;codecs=vp9", "video/webm"}

NextSession ==
  \/ UploadShort
  \/ MetadataLoaded
  \/ AnimateStill
  \/ Generate
  \/ ToggleWhileRendering
  \/ Seeked
  \/ SeekTimeout
  \/ RunFrame
  \/ Yield
  \/ RecorderStopped

SpecSession == InitSession /\ [][NextSession]_vars

\* ------------------------------------------------------------------------
\* An export on a machine of any speed: OpenCV is loaded, one file is
\* uploaded, GENERATE OUTPUT is pressed, and every seek wait ends by its
\* 'seeked' event or by the 500 ms timeout
\* ------------------------------------------------------------------------
\* Clips of 2.5 and 6 frames.
TimedDurations == {5, 12}

UploadTimed == ~videoFile /\ \E d \in TimedDurations : UploadFile(d)

NextTimed ==
  \/ UploadTimed
  \/ MetadataLoaded
  \/ Generate
  \/ Seeked
  \/ SeekTimeout
  \/ RunFrame
  \/ Yield
  \/ RecorderStopped

SpecTimed == InitSession /\ [][NextTimed]_vars

\* The tracker state and the result of frame i of an export in which no
\* time passes between the processFrame calls, continued up to frame n
\* from the state ts left by frame i - 1.
RECURSIVE InstantExport(_, _, _, _)
InstantExport(ts, i, n, st) ==
  LET t == Tracking(ts.activeBlobs, ts.nextBlobId, VideoFrame(i), st,
                    ExportShape.scaleFactor, 0)
      after == [activeBlobs |-> DrawOverlays(t.activeBlobs, t.trackedBlobs, st),
                nextBlobId |-> t.nextBlobId,
                trackedBlobs |-> t.trackedBlobs]
  IN IF i = n THEN after ELSE InstantExport(after, i + 1, n, st)

\* ------------------------------------------------------------------------
\* Exports of clips of 0.2 s, 2.0 s and 3.35 s (6, 60 and 100.5 frames)
\* ------------------------------------------------------------------------
ProgressDurations == {12, 120, 201}

UploadForProgress == ~videoFile /\ \E d \in ProgressDurations : UploadFile(d)

NextProgress ==
  \/ UploadForProgress
  \/ MetadataLoaded
  \/ Generate
  \/ Seeked
  \/ SeekTimeout
  \/ RunFrame
  \/ Yield
  \/ RecorderStopped

SpecProgress == InitSession /\ [][NextProgress]_vars

\* ------------------------------------------------------------------------
\* An export on a slow decoder: a seek whose wait ended by the 500 ms
\* timeout completes later, and its 'seeked' event is delivered after the
\* loop has requested the next seek and registered the next listener
\* ------------------------------------------------------------------------
\* At most MaxQueuedSeeks 'seeked' events are outstanding on the slow
\* decoder.
MaxQueuedSeeks == 2

YieldLate == YieldWithin(MaxQueuedSeeks)

NextStale ==
  \/ UploadTimed
  \/ MetadataLoaded
  \/ Generate
  \/ Seeked
  \/ SeekTimeout
  \/ RunFrame
  \/ YieldLate
  \/ RecorderStopped

SpecStale == InitSession /\ [][NextStale]_vars

\* ------------------------------------------------------------------------
\* A session in which pixel reads can fail: ctx.getImageData throws in some
\* frames of the preview and of the export, and OpenCV may finish loading
\* at any time
\* ------------------------------------------------------------------------
RunFrameReadAborts ==
  \E r \in 1..Len(runs) :
    /\ runs[r].pc = "process"
    /\ FrameStep(ExportShape, VideoFrame(runs[r].n), runs[r].settings,
                 ExportClockStep(runs[r].wake), "readFail",
                 [on |-> TRUE, time |-> FrameMillis(runs[r].n),
                  by |-> "export"])
    /\ runs' = [runs EXCEPT ![r].pc = "threw"]
    /\ UNCHANGED <<videoFile, renderState, settings, hasDownload, loading,
                   videoLoaded, duration, envVars, effectRun, seekEvents,
                   vidTime, completions>>

\* An export iteration in which getImageData throws inside processFrame.
RunFrameReadFails == RunFrameIn("readFail")

\* A preview frame in which getImageData throws inside processFrame.
AnimateReadFails == AnimateOn({ << Small(0, 0) >> }, {400}, "readFail")

NextFlaky ==
  \/ CvLoaded
  \/ UploadTimed
  \/ MetadataLoaded
  \/ AnimateStill
  \/ AnimateReadFails
  \/ Generate
  \/ Seeked
  \/ SeekTimeout
  \/ RunFrame
  \/ RunFrameReadFails
  \/ Yield
  \/ RecorderStopped

SpecFlaky == Init /\ [][NextFlaky]_vars

\* ------------------------------------------------------------------------
\* The tracker following a region over five frames, 300 ms apart, with
\* trails of length 2 or none
\* ------------------------------------------------------------------------
TrailLengths == {0, 2}

TrailSettings == [minArea : {100}, historyLength : TrailLengths]

TrailStep == 300

\* Regions with centres (10,10) and (60,10).
TrailContourLists ==
  UNION { [1..n -> { Rect(0, 0, 150), Rect(50, 0, 150) }] : n \in 0..MaxContours }

ProcessTrailFrame ==
  \E st \in TrailSettings :
    /\ clock + TrailStep <= MaxNow
    /\ \E contours \in TrailContourLists :
         /\ nextBlobId + Len(contours) - 1 <= MaxBlobId
         /\ DoProcessFrame(ExportShape, contours, st, TrailStep, "ok")
    /\ UNCHANGED appVars

SpecTrail == InitSession /\ [][ProcessTrailFrame]_vars

\* ------------------------------------------------------------------------
\* The tracker on the same footage processed at full resolution or
\* downscaled by 2
\* ------------------------------------------------------------------------
\* Regions of the 960x540 footage, 40x40 at (0,0), with contour areas
\* around minArea = 100.
FullRegions ==
  { [x |-> 0, y |-> 0, width |-> 40, height |-> 40, area |-> a] :
      a \in {80, 100, 104, 400} }

FullRegionLists == UNION { [1..n -> FullRegions] : n \in 0..MaxContours }

\* What findContours reports for a full-resolution region in a frame
\* drawn at 1/s of the size.
AtScale(region, s) ==
  [x |-> region.x \div s, y |-> region.y \div s,
   width |-> region.width \div s, height |-> region.height \div s,
   area |-> region.area \div (s * s)]

\* The full-resolution region that a contour found at scale s stands for.
UpScale(contour, s) ==
  [x |-> contour.x * s, y |-> contour.y * s,
   width |-> contour.width * s, height |-> contour.height * s,
   area |-> contour.area * (s * s)]

ProcessScaledFrame ==
  \E shape \in CallShapes, st \in SettingsSet, dt \in ClockSteps :
    /\ clock + dt <= MaxNow
    /\ \E regions \in FullRegionLists :
         /\ nextBlobId + Len(regions) - 1 <= MaxBlobId
         /\ DoProcessFrame(shape,
                           [i \in 1..Len(regions) |->
                              AtScale(regions[i], shape.scaleFactor)],
                           st, dt, "ok")
    /\ UNCHANGED appVars

SpecScaled == InitSession /\ [][ProcessScaledFrame]_vars

\* ------------------------------------------------------------------------
\* The tracker called with any number as scaleFactor: processFrame on
\* IEEE-754 values that may be infinite or NaN
\* ------------------------------------------------------------------------
Fin(n) == [kind |-> "fin", v |-> n]

PosInf == [kind |-> "inf", v |-> 1]

NaN == [kind |-> "nan", v |-> 0]

IsFinite(a) == a.kind = "fin"

Sign(n) == IF n > 0 THEN 1 ELSE IF n < 0 THEN -1 ELSE 0

\* a * b
XMul(a, b) ==
  IF a.kind = "nan" \/ b.kind = "nan" THEN NaN
  ELSE IF a.kind = "fin" /\ b.kind = "fin" THEN Fin(a.v * b.v)
  ELSE IF Sign(a.v) * Sign(b.v) = 0 THEN NaN
  ELSE [kind |-> "inf", v |-> Sign(a.v) * Sign(b.v)]

\* a - b
XSub(a, b) ==
  IF a.kind = "nan" \/ b.kind = "nan" THEN NaN
  ELSE IF a.kind = "fin" /\ b.kind = "fin" THEN Fin(a.v - b.v)
  ELSE IF a.kind = "inf" /\ b.kind = "inf"
       THEN IF a.v = b.v THEN NaN ELSE a
  ELSE IF a.kind = "inf" THEN a
  ELSE [kind |-> "inf", v |-> -b.v]

\* a < b
XLt(a, b) ==
  IF a.kind = "nan" \/ b.kind = "nan" THEN FALSE
  ELSE IF a.kind = "fin" /\ b.kind = "fin" THEN a.v < b.v
  ELSE IF a.kind = "inf" /\ b.kind = "inf" THEN a.v < b.v
  ELSE IF a.kind = "inf" THEN a.v < 0
  ELSE b.v > 0

\* Math.max(a, b)
XMax(a, b) ==
  IF a.kind = "nan" \/ b.kind = "nan" THEN NaN
  ELSE IF XLt(a, b) THEN b ELSE a

\* Math.hypot(dx, dy), squared: infinite when an argument is infinite,
\* else NaN when an argument is NaN.
XHypotSq(dx, dy) ==
  IF dx.kind = "inf" \/ dy.kind = "inf" THEN PosInf
  ELSE IF dx.kind = "nan" \/ dy.kind = "nan" THEN NaN
  ELSE Fin(dx.v * dx.v + dy.v * dy.v)

\* The values a caller can pass as scaleFactor.
XScales == { Fin(1), Fin(2), PosInf, NaN }

XRealArea(contour, scaleFactor) ==
  XMul(Fin(contour.area), XMul(scaleFactor, scaleFactor))

\* realArea > settings.minArea
XPassesMinArea(contour, st, scaleFactor) ==
  XLt(Fin(st.minArea), XRealArea(contour, scaleFactor))

XToCandidate(contour, scaleFactor) ==
  [x |-> XMul(Fin(contour.x + contour.width \div 2), scaleFactor),
   y |-> XMul(Fin(contour.y + contour.height \div 2), scaleFactor),
   w |-> XMul(Fin(contour.width), scaleFactor),
   h |-> XMul(Fin(contour.height), scaleFactor),
   area |-> XRealArea(contour, scaleFactor)]

RECURSIVE XExtractFrom(_, _, _, _)
XExtractFrom(contours, i, st, scaleFactor) ==
  IF i > Len(contours) THEN << >>
  ELSE LET rest == XExtractFrom(contours, i + 1, st, scaleFactor)
       IN IF XPassesMinArea(contours[i], st, scaleFactor)
          THEN << XToCandidate(contours[i], scaleFactor) >> \o rest
          ELSE rest

XMaxDist(scaleFactor) ==
  XMul(Fin(MAX_TRACKING_DISTANCE_BASE), XMax(Fin(1), scaleFactor))

\* The inner activeBlobs.forEach.
RECURSIVE XFindClosest(_, _, _, _, _, _)
XFindClosest(blobs, i, newBlob, assignedIds, closestId, minDistSq) ==
  IF i > Len(blobs) THEN closestId
  ELSE LET id == blobs[i].key
           existingBlob == blobs[i].val
           distSq == XHypotSq(XSub(newBlob.x, existingBlob.x),
                              XSub(newBlob.y, existingBlob.y))
       IN IF id \in assignedIds
          THEN XFindClosest(blobs, i + 1, newBlob, assignedIds, closestId,
                            minDistSq)
          ELSE IF XLt(distSq, minDistSq)
               THEN XFindClosest(blobs, i + 1, newBlob, assignedIds, id, distSq)
               ELSE XFindClosest(blobs, i + 1, newBlob, assignedIds, closestId,
                                 minDistSq)

\* One iteration of currentFrameBlobs.forEach.
XTrackOne(ts, newBlob, st, maxDist, now) ==
  LET closestId == XFindClosest(ts.activeBlobs, 1, newBlob, ts.assignedIds,
                                -1, XMul(maxDist, maxDist))
      entry == [cand |-> newBlob, before |-> ts.activeBlobs,
                assigned |-> ts.assignedIds, maxDist |-> maxDist,
                closestId |-> closestId]
  IN IF closestId # -1
     THEN LET updated == Updated(MapGet(ts.activeBlobs, closestId), newBlob,
                                 st, now)
          IN [activeBlobs |-> MapSet(ts.activeBlobs, closestId, updated),
              nextBlobId |-> ts.nextBlobId,
              assignedIds |-> ts.assignedIds \cup {closestId},
              trackedBlobs |-> Append(ts.trackedBlobs, updated),
              issued |-> ts.issued,
              log |-> Append(ts.log, entry @@ [newId |-> -1])]
     ELSE LET newId == NewId(ts.activeBlobs, ts.nextBlobId)
          IN [activeBlobs |-> MapSet(ts.activeBlobs, newId,
                                     NewEntity(newId, newBlob, now)),
              nextBlobId |-> ts.nextBlobId + 1,
              assignedIds |-> ts.assignedIds,
              trackedBlobs |-> Append(ts.trackedBlobs,
                                      NewEntity(newId, newBlob, now)),
              issued |-> Append(ts.issued, newId),
              log |-> Append(ts.log, entry @@ [newId |-> newId])]

RECURSIVE XTrackFrom(_, _, _, _, _, _)
XTrackFrom(ts, cands, i, st, maxDist, now) ==
  IF i > Len(cands) THEN ts
  ELSE XTrackFrom(XTrackOne(ts, cands[i], st, maxDist, now),
                  cands, i + 1, st, maxDist, now)

\* Steps 3 and 4 of processFrame.
XTracking(blobs, next, contours, st, scaleFactor, now) ==
  LET ts == XTrackFrom([activeBlobs |-> blobs, nextBlobId |-> next,
                        assignedIds |-> {}, trackedBlobs |-> << >>,
                        issued |-> << >>, log |-> << >>],
                       XExtractFrom(contours, 1, st, scaleFactor), 1,
                       st, XMaxDist(scaleFactor), now)
  IN [ts EXCEPT !.activeBlobs = Prune(ts.activeBlobs, now)]

\* Regions with centres (10,10) and (110,10).
XContourLists ==
  UNION { [1..n -> { Rect(0, 0, 150), Rect(100, 0, 150) }] : n \in 0..MaxContours }

\* processFrame(ctx, 960, 540, settings, scaleFactor) with OpenCV loaded.
XProcessFrame ==
  \E scaleFactor \in XScales, st \in SettingsSet, dt \in ClockSteps :
    /\ clock + dt <= MaxNow
    /\ \E contours \in XContourLists :
         /\ nextBlobId + Len(contours) - 1 <= MaxBlobId
         /\ \E t \in { XTracking(activeBlobs, nextBlobId, contours, st,
                                  scaleFactor, clock + dt) } :
              /\ activeBlobs' = t.activeBlobs
              /\ nextBlobId' = t.nextBlobId
              /\ issuedIds' = issuedIds \o t.issued
              /\ call' = [op |-> "processFrame", outcome |-> "tracked",
                          scaleFactor |-> scaleFactor,
                          historyLength |-> st.historyLength,
                          minArea |-> st.minArea, found |-> contours,
                          now |-> clock + dt, ret |-> t.trackedBlobs,
                          log |-> t.log, drawn |-> << >>, by |-> "api"]
    /\ clock' = clock + dt
    /\ cv' = TRUE
    /\ src' = TRUE
    /\ lastDimensions' = <<960, 540>>
    /\ UNCHANGED windowCv
    /\ UNCHANGED appVars

SpecAnyScale == InitSession /\ [][XProcessFrame]_vars

\* ------------------------------------------------------------------------
\* Properties of the tracker
\* ------------------------------------------------------------------------
Tracked == call.op = "processFrame" /\ call.outcome = "tracked"

\* Radius of a call as the interface documents it.
Radius(scaleFactor) == IF scaleFactor > 1 THEN 100 * scaleFactor ELSE 100

\* Indices of the blobs of log entry e that no earlier candidate of the
\* same call was matched to.
Unassigned(e) == { i \in 1..Len(e.before) : e.before[i].key \notin e.assigned }

CandDistSq(e, i) ==
  (e.cand.x - e.before[i].val.x) * (e.cand.x - e.before[i].val.x)
  + (e.cand.y - e.before[i].val.y) * (e.cand.y - e.before[i].val.y)

\* C1: the ids of the blobs returned by one processFrame call are pairwise
\* distinct.
C1_ResultIdsDistinct ==
  \A i, j \in 1..Len(call.ret) : i # j => call.ret[i].id # call.ret[j].id

\* C2: ids come from a counter that starts at 1 and only increases: the ids
\* handed out are strictly increasing in order of creation, so no id, pruned
\* or active, is ever handed out again.
C2_IdsStrictlyIncreasing ==
  /\ Len(issuedIds) > 0 => issuedIds[1] = 1
  /\ \A i, j \in 1..Len(issuedIds) : i < j => issuedIds[i] < issuedIds[j]
  /\ MapKeys(activeBlobs) \subseteq { issuedIds[i] : i \in 1..Len(issuedIds) }
  /\ \A i \in 1..Len(issuedIds) : issuedIds[i] < nextBlobId

\* A blob is created by a call made after blob 1 had been pruned.
C2_Witness ==
  /\ Tracked
  /\ \E k \in 1..Len(call.log) :
       /\ call.log[k].newId > 1
       /\ ~MapHas(call.log[k].before, 1)
       /\ MapHas(activeBlobs, call.log[k].newId)

\* C3: after a processFrame call every blob updated by the call has at most
\* historyLength (the setting of that call) history entries.
C3_HistoryWithinSetting ==
  Tracked => \A i \in 1..Len(call.ret) :
               Len(call.ret[i].history) <= call.historyLength

\* C7: a blob whose last match is more than BLOB_TIMEOUT before the now of
\* the next processFrame call is absent from the result of that call.
C7_StaleBlobNotReturned ==
  [][ call'.op = "processFrame" =>
        \A i \in 1..Len(activeBlobs) :
          clock' - activeBlobs[i].val.lastSeen > 500 =>
            \A k \in 1..Len(call'.ret) : call'.ret[k].id # activeBlobs[i].key
    ]_vars

\* C8: a blob leaves the active set only in a processFrame call that reaches
\* the prune step, and exactly when now - lastSeen > 500 there; after such a
\* call every active blob has now - lastSeen <= 500.
C8_RemovedIffTimedOut ==
  [][ /\ \A i \in 1..Len(activeBlobs) :
           ~MapHas(activeBlobs', activeBlobs[i].key) =>
             /\ call'.op = "processFrame" /\ call'.outcome = "tracked"
             /\ call'.now - activeBlobs[i].val.lastSeen > 500
      /\ (call'.op = "processFrame" /\ call'.outcome = "tracked") =>
           /\ \A i \in 1..Len(activeBlobs') :
                call'.now - activeBlobs'[i].val.lastSeen <= 500
           /\ \A i \in 1..Len(activeBlobs) :
                (/\ call'.now - activeBlobs[i].val.lastSeen > 500
                 /\ \A k \in 1..Len(call'.ret) :
                      call'.ret[k].id # activeBlobs[i].key)
                  => ~MapHas(activeBlobs', activeBlobs[i].key)
      /\ (call'.op # "processFrame" \/ call'.outcome # "tracked") =>
           activeBlobs' = activeBlobs
    ]_vars

\* A call reached the prune step, an issued id is gone and a blob last seen
\* exactly 500 ms before the call is still active.
C8_Witness ==
  /\ Tracked
  /\ \E k \in 1..Len(issuedIds) : ~MapHas(activeBlobs, issuedIds[k])
  /\ \E i \in 1..Len(activeBlobs) : call.now - activeBlobs[i].val.lastSeen = 500

\* C9: a candidate at distance >= radius from every unassigned active blob
\* matches none and gets a new id; a matched blob is strictly within the
\* radius 100 * max(1, scaleFactor).
C9_OutsideRadiusSpawns ==
  Tracked =>
    \A k \in 1..Len(call.log) :
      LET e == call.log[k]
          r == Radius(call.scaleFactor)
      IN /\ (\A i \in Unassigned(e) : CandDistSq(e, i) >= r * r) =>
              /\ e.closestId = -1
              /\ e.newId # -1
              /\ ~MapHas(e.before, e.newId)
              /\ call.ret[k].id = e.newId
         /\ e.closestId # -1 =>
              \E i \in Unassigned(e) :
                /\ e.before[i].key = e.closestId
                /\ CandDistSq(e, i) < r * r
                /\ call.ret[k].id = e.closestId

\* A candidate exactly at the radius from an unassigned blob got a new id.
C9_Witness ==
  /\ Tracked
  /\ \E k \in 1..Len(call.log) :
       LET e == call.log[k]
           r == Radius(call.scaleFactor)
       IN /\ \E i \in Unassigned(e) : CandDistSq(e, i) = r * r
          /\ e.closestId = -1
          /\ e.newId # -1

\* C10: the blob matched to a candidate is the unassigned blob at minimum
\* distance among those strictly within the radius, the earliest in the
\* map's insertion order among equals.
C10_ClosestChosen ==
  Tracked =>
    \A k \in 1..Len(call.log) :
      LET e == call.log[k]
          r == Radius(call.scaleFactor)
          within == { i \in Unassigned(e) : CandDistSq(e, i) < r * r }
      IN /\ within # {} => e.closestId # -1
         /\ e.closestId # -1 =>
              \E c \in within :
                /\ e.before[c].key = e.closestId
                /\ \A i \in Unassigned(e) :
                     /\ CandDistSq(e, i) >= CandDistSq(e, c)
                     /\ CandDistSq(e, i) = CandDistSq(e, c) => c <= i

\* Two unassigned blobs were within the radius and the later one in map
\* order, being closer, was chosen.
C10_Witness ==
  /\ Tracked
  /\ \E k \in 1..Len(call.log) :
       LET e == call.log[k]
           r == Radius(call.scaleFactor)
       IN \E c, i \in Unassigned(e) :
            /\ i < c
            /\ CandDistSq(e, i) < r * r
            /\ CandDistSq(e, c) < CandDistSq(e, i)
            /\ e.before[c].key = e.closestId

\* Two unassigned blobs were at the same distance within the radius and the
\* earlier one in map order was chosen.
C10_TieReached ==
  /\ Tracked
  /\ \E k \in 1..Len(call.log) :
       LET e == call.log[k]
           r == Radius(call.scaleFactor)
       IN \E c, i \in Unassigned(e) :
            /\ c < i
            /\ CandDistSq(e, c) < r * r
            /\ CandDistSq(e, c) = CandDistSq(e, i)
            /\ e.before[c].key = e.closestId

\* The candidates of the call, as their centres.
CandCentres(c) == [i \in 1..Len(c.log) |-> <<c.log[i].cand.x, c.log[i].cand.y>>]

RetIds(c) == [i \in 1..Len(c.ret) |-> c.ret[i].id]

\* The tracker holds what a first frame with candidates at (10,10) and
\* (600,600) left on a fresh tracker, and that frame was the last call.
AfterFirstFarFrame ==
  /\ Tracked
  /\ call.scaleFactor = 1
  /\ CandCentres(call) = << <<10, 10>>, <<600, 600>> >>
  /\ call.log[1].before = << >>
  /\ issuedIds = RetIds(call)

\* C11: on a fresh tracker a frame with candidates at (10,10) and (600,600)
\* returns ids 1 and 2 in that order, and a following frame with one
\* candidate at (15,12) at scale 1 returns a single blob with id 1 and
\* creates no id.
C11_FarScenario ==
  [][ /\ ( /\ nextBlobId = 1
           /\ call'.op = "processFrame" /\ call'.outcome = "tracked"
           /\ call'.scaleFactor = 1
           /\ CandCentres(call') = << <<10, 10>>, <<600, 600>> >> )
         => RetIds(call') = <<1, 2>>
      /\ ( /\ AfterFirstFarFrame
           /\ call'.op = "processFrame" /\ call'.outcome = "tracked"
           /\ call'.scaleFactor = 1
           /\ CandCentres(call') = << <<15, 12>> >> )
         => /\ RetIds(call') = <<1>>
            /\ nextBlobId' = 3
            /\ issuedIds' = <<1, 2>> ]_vars

\* The second frame of the scenario has been processed.
C11_Witness ==
  /\ Tracked
  /\ CandCentres(call) = << <<15, 12>> >>
  /\ Len(call.log[1].before) = 2
  /\ call.log[1].before[1].val.x = 10 /\ call.log[1].before[1].val.y = 10
  /\ call.log[1].before[2].val.x = 600 /\ call.log[1].before[2].val.y = 600
  /\ call.log[1].before[1].val.history = << >>
  /\ issuedIds = <<1, 2>>
  /\ RetIds(call) = <<1>>

\* The regions of the call whose area, brought to full resolution, exceeds
\* minArea.
LargeRegions(c) ==
  LET Large(region) ==
        region.area * c.scaleFactor * c.scaleFactor > c.minArea
  IN SelectSeq(c.found, Large)

\* C12: the candidates of a call are exactly the regions found with
\* area * scaleFactor^2 > minArea, in the order found, and each is returned
\* once; with minArea 100 a region of full-resolution area 50 is not among
\* them, and a region of area 150 found first on a fresh tracker gets id 1.
C12_AreaFilter ==
  Tracked =>
    LET large == LargeRegions(call)
    IN /\ Len(call.log) = Len(large)
       /\ Len(call.ret) = Len(large)
       /\ \A i \in 1..Len(large) :
            /\ call.log[i].cand.area
                 = large[i].area * call.scaleFactor * call.scaleFactor
            /\ call.log[i].cand.x
                 = (large[i].x + large[i].width \div 2) * call.scaleFactor
            /\ call.ret[i].area = call.log[i].cand.area
       /\ \A i \in 1..Len(call.log) : call.log[i].cand.area > call.minArea
       /\ (call.minArea = 100 /\ call.scaleFactor = 1) =>
            \A i \in 1..Len(call.log) : call.log[i].cand.area # 50
       /\ ( /\ call.minArea = 100 /\ call.scaleFactor = 1
            /\ Len(call.found) > 0
            /\ call.found[1].area = 150
            /\ call.log[1].before = << >>
            /\ issuedIds = RetIds(call) )
          => call.ret[1].id = 1

\* On a fresh tracker a frame held a region of area 50 and then one of
\* area 150: only the second is returned, with id 1.
C12_Witness ==
  /\ Tracked
  /\ call.minArea = 100 /\ call.scaleFactor = 1
  /\ Len(call.found) = 2
  /\ call.found[1].area = 50 /\ call.found[2].area = 150
  /\ issuedIds = <<1>>
  /\ RetIds(call) = <<1>>

\* At scale 2 a region of processed area 50 is tracked.
C12_ScaledReached ==
  /\ Tracked
  /\ call.scaleFactor = 2
  /\ Len(call.found) = 1 /\ call.found[1].area = 50
  /\ Len(call.ret) = 1

\* ------------------------------------------------------------------------
\* Properties of the smoother
\* ------------------------------------------------------------------------
\* The blobs drawn by the last drawOverlays call with jitter = 0 and
\* drift = 1.0.
DrawnAtFullDrift ==
  { i \in 1..Len(call.drawn) :
      call.drawn[i].jitter = 0 /\ call.drawn[i].drift = 10 }

\* C14 as stated: with jitter = 0 and drift = 1.0 one update puts the
\* display position and the drawn position on the true position.
C14_ConvergesInOneUpdate ==
  \A i \in DrawnAtFullDrift :
    LET d == call.drawn[i]
    IN /\ d.visualX = d.x /\ d.visualY = d.y
       /\ d.drawX = d.x /\ d.drawY = d.y

\* C14, amended: with jitter = 0 and drift = 1.0 the drawn position is the
\* display position, one update moves the display position one tenth of
\* the way to the true position, and it is on the true position afterwards
\* only if it was before.
C14_TenthOfTheWay ==
  \A i \in DrawnAtFullDrift :
    LET d == call.drawn[i]
    IN /\ d.drawX = d.visualX /\ d.drawY = d.visualY
       /\ (d.x - d.prevX) % 10 = 0 =>
            10 * (d.visualX - d.prevX) = d.x - d.prevX
       /\ (d.y - d.prevY) % 10 = 0 =>
            10 * (d.visualY - d.prevY) = d.y - d.prevY
       /\ d.visualX = d.x <=> d.prevX = d.x
       /\ d.visualY = d.y <=> d.prevY = d.y

\* A blob whose display position was 50 px off its true position has been
\* drawn with jitter = 0 and drift = 1.0.
C14_Witness ==
  \E i \in DrawnAtFullDrift :
    /\ call.drawn[i].x - call.drawn[i].prevX \in {50, -50}
    /\ call.drawn[i].visualX # call.drawn[i].x

C4_CancelledRunDiscarded ==
  \A k \in 1..Len(completions) :
    runs[completions[k].run].cancelledAt \notin LoopPcs

\* C5: within one run the values passed to onRenderProgress never decrease
\* and lie in 0..100, and once the run has stopped the recorder at least
\* one value was reported and the last one is the largest.
C5_ProgressMonotoneInRange ==
  \A r \in 1..Len(runs) :
    LET p == runs[r].progress
    IN /\ \A i \in 1..Len(p) : p[i] \in 0..100
       /\ \A i \in 1..(Len(p) - 1) : p[i] <= p[i + 1]
       /\ runs[r].pc \in {"stopping", "done"} =>
            /\ Len(p) >= 1
            /\ \A i \in 1..Len(p) : p[i] <= p[Len(p)]

\* A run that was not cancelled before it completed has made three
\* reports, the last of them larger than the first.
C5_Witness ==
  \E r \in 1..Len(runs) :
    /\ runs[r].pc = "done"
    /\ runs[r].cancelledAt = "done"
    /\ Len(runs[r].progress) = 3
    /\ runs[r].progress[1] < runs[r].progress[3]

CeilDiv(a, b) == (a + b - 1) \div b

\* C6: a run performs at most ceil(duration / frameDuration) iterations
\* (the duration is counted in half frames).
C6_IterationsWithinBound ==
  \A r \in 1..Len(runs) : runs[r].n <= CeilDiv(runs[r].duration, 2)

\* C13: the loop body runs for frame index n exactly when n * frameDuration
\* < duration: it has run for no other index, and a run that was not
\* cancelled in the loop leaves it after ceil(duration / frameDuration)
\* iterations.
C13_BodyRunsWhileBelowDuration ==
  \A r \in 1..Len(runs) :
    /\ \A k \in 0..(runs[r].n - 1) : 2 * k < runs[r].duration
    /\ ( /\ runs[r].pc \in {"stopping", "done"}
         /\ runs[r].cancelledAt \notin LoopPcs )
       => runs[r].n = CeilDiv(runs[r].duration, 2)

\* The 2.0 s clip is exported in exactly 60 iterations.
C13_TwoSecondsSixty ==
  \A r \in 1..Len(runs) :
    (runs[r].duration = 120 /\ runs[r].pc \in {"stopping", "done"})
      => runs[r].n = 60 /\ Len(runs[r].progress) = 60

C13_TwoSecondsDone ==
  \E r \in 1..Len(runs) : runs[r].duration = 120 /\ runs[r].pc = "done"

\* C16: when the sink supports none of the candidate formats the export is
\* aborted and the failure reaches the caller: rendering does not go on
\* for ever.
C16_NegotiationFailureSurfaced ==
  (\E r \in 1..Len(runs) : runs[r].pc = "unsupported")
    ~> (renderState # "rendering")

\* A run whose recorder could not be created has processed nothing: no
\* seek, no frame, no progress report, no completion.
C16_NothingProcessed ==
  \A r \in 1..Len(runs) :
    runs[r].pc = "unsupported" =>
      /\ runs[r].n = 0 /\ runs[r].frames = 0 /\ runs[r].progress = << >>
      /\ seekEvents = << >>
      /\ call.by # "export"
      /\ \A k \in 1..Len(completions) : completions[k].run # r

C16_UnsupportedReached ==
  \E r \in 1..Len(runs) : runs[r].pc = "unsupported" /\ supported = { }

\* C17: after an exception inside the export loop the export reaches a
\* terminal outcome other than completion and the render state does not
\* stay 'rendering' for ever.
C17_FailureEndsRendering ==
  (\E r \in 1..Len(runs) : runs[r].pc = "threw")
    ~> (renderState # "rendering")

\* C20: once the cleanup of the render effect has set cancelled for a run,
\* that run makes no further onRenderProgress call.
C20_NoProgressAfterCancel ==
  [][\A r \in 1..Len(runs) :
       runs[r].cancelled => runs'[r].progress = runs[r].progress]_vars

\* ------------------------------------------------------------------------
\* Properties of a session with preview and export
\* ------------------------------------------------------------------------
\* The run still has code of a loop iteration to execute: it waits inside
\* the loop body, or it will pass the loop test after its yield.
InFlight(run) ==
  \/ run.pc \in {"seekWait", "process", "frameWait"}
  \/ run.pc = "yield" /\ ~run.cancelled /\ TimeBelow(run.n, run.duration)

\* This step is a processFrame call of animate.
PreviewCall == call' # call /\ call'.op = "processFrame" /\ call'.by = "preview"

\* animate calls processFrame only when no export run is in flight.
PreviewOutsideExport ==
  PreviewCall => \A r \in 1..Len(runs) : ~InFlight(runs[r])

\* After the step at most one export run is in flight.
OneRunInFlight ==
  Cardinality({ r \in 1..Len(runs') : InFlight(runs'[r]) }) <= 1

\* C18: animate never calls processFrame while an export run has loop
\* iterations in flight, and at most one export run is in flight at a time.
C18_DriversExclusive == [][PreviewOutsideExport /\ OneRunInFlight]_vars

C18_PreviewNeverDuringExport == [][PreviewOutsideExport]_vars

C18_AtMostOneRun == [][OneRunInFlight]_vars

\* This step is the first processFrame call of the export: a run executes
\* its loop body for frame 0 and no run has finished a loop body before.
FirstExportFrame ==
  /\ \E r \in 1..Len(runs) :
        runs[r].pc = "process" /\ runs'[r].pc # "process" /\ runs[r].n = 0
  /\ \A q \in 1..Len(runs) : runs[q].n = 0 /\ runs[q].pc # "frameWait"

\* C19: at the first processFrame call of the export the set of active
\* blobs left by the preview is empty, and every blob the call returns was
\* created by that call.
C19_TrackerResetBeforeExport ==
  [][FirstExportFrame =>
       /\ activeBlobs = << >>
       /\ \A i \in 1..Len(call'.ret) : call'.ret[i].id >= nextBlobId]_vars

\* C19, second half alone: the first export frame returns no blob that
\* was created during the preview.
C19_NoPreviewBlobReturned ==
  [][FirstExportFrame =>
       \A i \in 1..Len(call'.ret) : call'.ret[i].id >= nextBlobId]_vars

\* ------------------------------------------------------------------------
\* Properties of the completion of an export
\* ------------------------------------------------------------------------
\* The export request (press of GENERATE OUTPUT) that run r belongs to,
\* named by its first run: a run started while its predecessor had not
\* completed as the current run was started by a re-run of the render
\* effect within the same request.
RequestOf(r) ==
  CHOOSE q \in 1..r :
    /\ \A i \in q..(r - 1) : runs[i].cancelledAt # "done"
    /\ q = 1 \/ runs[q - 1].cancelledAt = "done"

\* The onRenderComplete calls made for request q.
CompletionsOf(q) ==
  { k \in 1..Len(completions) : RequestOf(completions[k].run) = q }

IsMp4(mimeType) == \E i \in 1..Len(Mp4Types) : Mp4Types[i] = mimeType

\* Every onRenderComplete call was made for a run that had left its loop and
\* stopped its recorder after as many progress reports as iterations, with
\* the extension of the run's mime type.
CompletionsWellFormed ==
  \A k \in 1..Len(completions) :
    LET run == runs[completions[k].run]
    IN /\ run.pc = "done"
       /\ Len(run.progress) = run.n
       /\ completions[k].extension = run.extension
       /\ run.extension = IF IsMp4(run.mimeType) THEN "mp4" ELSE "webm"

\* C21: an export request has onRenderComplete invoked at most once, exactly
\* once when its runs have ended, only for a run that stopped its recorder
\* after its last frame, with the extension of the negotiated mime type,
\* and the decoder position is 0 when all runs have ended.
C21_CompletedExactlyOnce ==
  /\ CompletionsWellFormed
  /\ \A r \in 1..Len(runs) :
       /\ Cardinality(CompletionsOf(RequestOf(r))) <= 1
       /\ runs[r].pc = "done" => Cardinality(CompletionsOf(RequestOf(r))) >= 1
  /\ (Len(runs) > 0 /\ \A r \in 1..Len(runs) : runs[r].pc = "done")
       => vidTime = 0

\* The same for an export that is left alone, where a request is one run.
C21_UndisturbedOnce ==
  /\ CompletionsWellFormed
  /\ Len(completions) <= 1
  /\ \A r \in 1..Len(runs) :
       runs[r].pc = "done" => Len(completions) = 1 /\ vidTime = 0

C21_Mp4Completed ==
  \E k \in 1..Len(completions) : completions[k].extension = "mp4"

\* ------------------------------------------------------------------------
\* Properties of the export's timing
\* ------------------------------------------------------------------------
\* Ids and histories of a list of blobs.
IdsAndHistories(blobs) ==
  [i \in 1..Len(blobs) |-> [id |-> blobs[i].id, history |-> blobs[i].history]]

\* The last processFrame call was made by the export run for frame n - 1.
ExportFrameDone ==
  /\ Len(runs) = 1
  /\ runs[1].n > 0
  /\ call.by = "export"
  /\ Tracked

\* C22: the ids and histories returned for an export frame are those of an
\* export of the same frames and settings in which no time passes between
\* the calls, however long the seek waits of this export took.
C22_TimingIndependent ==
  ExportFrameDone =>
    IdsAndHistories(call.ret)
      = IdsAndHistories(InstantExport([activeBlobs |-> << >>, nextBlobId |-> 1],
                                      0, runs[1].n - 1,
                                      runs[1].settings).trackedBlobs)

\* An export whose seek waits all ended at once agrees with the instant
\* export in every frame.
C22_InstantAgrees == clock = 0 => C22_TimingIndependent

C22_InstantDone ==
  ExportFrameDone /\ clock = 0 /\ runs[1].n = 7 /\ Len(call.ret) = 1

\* ------------------------------------------------------------------------
\* Properties of the tracker on non-finite input
\* ------------------------------------------------------------------------
NonFinite(cand) == ~IsFinite(cand.x) \/ ~IsFinite(cand.y)

\* C23: a candidate with a non-finite x or y creates no blob, consumes no
\* id and is not in the result: every candidate the call matched or
\* created a blob for is finite, and so is every blob returned or stored.
C23_NonFiniteIgnored ==
  Tracked =>
    /\ \A k \in 1..Len(call.log) : ~NonFinite(call.log[k].cand)
    /\ \A i \in 1..Len(call.ret) : ~NonFinite(call.ret[i])
    /\ \A i \in 1..Len(activeBlobs) : ~NonFinite(activeBlobs[i].val)

\* A call with scaleFactor NaN or Infinity found a region.
C23_NonFiniteScaleCalled ==
  Tracked /\ ~IsFinite(call.scaleFactor) /\ Len(call.found) > 0

\* With scaleFactor NaN every region fails the area test: nothing is
\* tracked, and no error is raised.
C23_NaNScaleTracksNothing ==
  (Tracked /\ call.scaleFactor = NaN) => call.ret = << >>

\* A blob of the integer tracker as IEEE values.
XBlob(b) ==
  [b EXCEPT !.x = Fin(@), !.y = Fin(@), !.w = Fin(@), !.h = Fin(@),
            !.area = Fin(@), !.visualX = Fin(@), !.visualY = Fin(@),
            !.history = [i \in 1..Len(@) |-> [x |-> Fin(@[i].x),
                                              y |-> Fin(@[i].y)]]]

XBlobs(m) == [i \in 1..Len(m) |-> [key |-> m[i].key, val |-> XBlob(m[i].val)]]

\* On a finite scaleFactor the tracker on IEEE values does what the
\* tracker on integers does.
XAgreesOnFinite ==
  [][(call'.op = "processFrame" /\ call'.outcome = "tracked") =>
       LET t == XTracking(XBlobs(activeBlobs), nextBlobId, call'.found,
                          [minArea |-> call'.minArea,
                           historyLength |-> call'.historyLength],
                          Fin(call'.scaleFactor), call'.now)
       IN /\ t.activeBlobs = XBlobs(activeBlobs')
          /\ t.nextBlobId = nextBlobId'
          /\ t.trackedBlobs = [i \in 1..Len(call'.ret) |-> XBlob(call'.ret[i])]
    ]_vars

\* ------------------------------------------------------------------------
\* Properties of frame acquisition failures
\* ------------------------------------------------------------------------
\* This step is a loop iteration, of the preview or of the export, whose
\* processFrame call ended at the backend test or at the pixel read.
FrameSkipped ==
  /\ call'.op = "processFrame"
  /\ call'.outcome \in {"noCv", "readFail"}
  /\ \/ call'.by = "preview" /\ call' # call
     \/ \E r \in 1..Len(runs) : runs[r].pc = "process" /\ runs'[r] # runs[r]

\* C24: a processFrame call that finds no backend or fails to read the
\* pixels returns an empty list and leaves nextBlobId and the active blobs
\* as they were, and the loop that called it goes on: the export iteration
\* reports its progress and moves to the next frame.
C24_FailedReadSkipsFrame ==
  [][FrameSkipped =>
       /\ call'.ret = << >>
       /\ nextBlobId' = nextBlobId
       /\ activeBlobs' = activeBlobs
       /\ issuedIds' = issuedIds
       /\ renderState' = renderState
       /\ \A r \in 1..Len(runs) :
            runs[r].pc = "process" /\ runs'[r] # runs[r] =>
              /\ runs'[r].pc = "yield"
              /\ runs'[r].n = runs[r].n + 1
              /\ Len(runs'[r].progress) = Len(runs[r].progress) + 1]_vars

\* The export has skipped frame 0, which shows a region, and went on: the
\* blob of that region was created by the call for frame 2, made in the
\* same millisecond as the export began.
C24_Witness ==
  /\ Len(runs) = 1
  /\ runs[1].n = 3
  /\ call.by = "export"
  /\ Tracked
  /\ Len(call.log) = 1
  /\ call.log[1].before = << >>
  /\ call.log[1].newId = 1
  /\ call.now = 0

\* An export frame ended at the pixel read with OpenCV loaded.
C24_ReadFailedInExport ==
  call.by = "export" /\ call.outcome = "readFail" /\ activeBlobs # << >>

\* An export frame ended at the backend test.
C24_NoBackendInExport == call.by = "export" /\ call.outcome = "noCv"

\* ------------------------------------------------------------------------
\* Properties of the update of a matched blob
\* ------------------------------------------------------------------------
\* The position of blob b as a history entry.
PositionOf(b) == [x |-> b.x, y |-> b.y]

\* C25: the blob returned for a candidate that matched blob b has b's id,
\* visualX and visualY, the candidate's x, y, w, h and area, lastSeen = now,
\* and as history b's history followed by b's position, without its oldest
\* entry exactly when that is longer than settings.historyLength.
C25_MatchedBlobUpdated ==
  Tracked =>
    \A k \in 1..Len(call.log) :
      LET e == call.log[k]
      IN e.closestId # -1 =>
           LET old == MapGet(e.before, e.closestId)
               new == call.ret[k]
               full == Append(old.history, PositionOf(old))
               kept == Len(new.history)
           IN /\ new.id = old.id /\ new.id = e.closestId
              /\ new.visualX = old.visualX /\ new.visualY = old.visualY
              /\ new.x = e.cand.x /\ new.y = e.cand.y
              /\ new.w = e.cand.w /\ new.h = e.cand.h
              /\ new.area = e.cand.area
              /\ new.lastSeen = call.now
              /\ kept \in {Len(full) - 1, Len(full)}
              /\ new.history = SubSeq(full, Len(full) - kept + 1, Len(full))
              /\ kept = Len(full) - 1 <=> Len(full) > call.historyLength

\* A blob with two different history entries was matched at capacity 2
\* after it had moved: its oldest entry was evicted and its last position
\* appended.
C25_Witness ==
  /\ Tracked
  /\ call.historyLength = 2
  /\ \E k \in 1..Len(call.log) :
       LET e == call.log[k]
       IN /\ e.closestId # -1
          /\ LET old == MapGet(e.before, e.closestId)
             IN /\ Len(old.history) = 2
                /\ old.history[1] # old.history[2]
                /\ old.history[2] # PositionOf(old)
                /\ call.ret[k].history = << old.history[2], PositionOf(old) >>
                /\ call.ret[k].x # old.x

\* ------------------------------------------------------------------------
\* Properties of the creation of a blob
\* ------------------------------------------------------------------------
\* This step is a processFrame call that reached the tracking step.
TrackingStep ==
  call'.op = "processFrame" /\ call'.outcome = "tracked" /\ clock' # clock

\* The candidates before candidate k of the call that matched no blob.
CreatedBefore(c, k) == { j \in 1..(k - 1) : c.log[j].closestId = -1 }

\* C26: a candidate that matches no blob adds exactly one blob to the
\* active set, under the id nextBlobId had (nextBlobId is then one larger),
\* with empty history, visualX/visualY at the candidate position and
\* lastSeen = now; every active blob has visualX and visualY.
C26_UnmatchedCreatesOne ==
  [][TrackingStep =>
       /\ \A k \in 1..Len(call'.log) :
            LET e == call'.log[k]
                id == nextBlobId + Cardinality(CreatedBefore(call', k))
                created == [id |-> id, x |-> e.cand.x, y |-> e.cand.y,
                            w |-> e.cand.w, h |-> e.cand.h,
                            area |-> e.cand.area, lastSeen |-> call'.now,
                            history |-> << >>,
                            visualX |-> e.cand.x, visualY |-> e.cand.y]
                after == IF k < Len(call'.log) THEN call'.log[k + 1].before
                         ELSE activeBlobs'
            IN e.closestId = -1 =>
                 /\ e.newId = id
                 /\ ~MapHas(e.before, id)
                 /\ call'.ret[k] = created
                 /\ MapHas(after, id) /\ MapGet(after, id) = created
                 /\ k < Len(call'.log) =>
                      after = Append(e.before, [key |-> id, val |-> created])
       /\ nextBlobId'
            = nextBlobId + Cardinality(CreatedBefore(call', Len(call'.log) + 1))
       /\ \A i \in 1..Len(activeBlobs') :
            /\ {"visualX", "visualY"} \subseteq DOMAIN activeBlobs'[i].val
            /\ activeBlobs'[i].val.visualX \in Int
            /\ activeBlobs'[i].val.visualY \in Int]_vars

\* With blob 1 active and out of reach, two candidates of one call matched
\* nothing: blobs 2 and 3 were created and nextBlobId is 4.
C26_Witness ==
  /\ Tracked
  /\ Len(call.log) = 2
  /\ call.log[1].closestId = -1 /\ call.log[2].closestId = -1
  /\ MapKeys(call.log[1].before) = {1}
  /\ RetIds(call) = <<2, 3>>
  /\ nextBlobId = 4
  /\ MapKeys(activeBlobs) = {1, 2, 3}

\* ------------------------------------------------------------------------
\* Properties of the returned list
\* ------------------------------------------------------------------------
\* C27: the list returned by processFrame has one entry per accepted
\* candidate, in candidate order, which is the blob that candidate matched
\* or created; a blob that was active before the call and that no
\* candidate matched is not in the list; every returned blob is in the
\* active set after the prune step, as the call last stored it.
C27_ResultIsMatchedOrCreated ==
  [][TrackingStep =>
       /\ Len(call'.log) = Len(LargeRegions(call'))
       /\ Len(call'.ret) = Len(call'.log)
       /\ \A k \in 1..Len(call'.log) :
            LET e == call'.log[k]
            IN /\ call'.ret[k].id = IF e.closestId # -1 THEN e.closestId
                                    ELSE e.newId
               /\ call'.ret[k].x = e.cand.x /\ call'.ret[k].y = e.cand.y
               /\ e.closestId # -1 => MapHas(e.before, e.closestId)
               /\ e.closestId = -1 => ~MapHas(e.before, e.newId)
       /\ \A i \in 1..Len(activeBlobs) :
            (\A k \in 1..Len(call'.log) :
               call'.log[k].closestId # activeBlobs[i].key)
              => \A k \in 1..Len(call'.ret) :
                   call'.ret[k].id # activeBlobs[i].key
       /\ \A k \in 1..Len(call'.ret) :
            /\ MapHas(activeBlobs', call'.ret[k].id)
            /\ (\A j \in (k + 1)..Len(call'.ret) :
                  call'.ret[j].id # call'.ret[k].id)
                 => MapGet(activeBlobs', call'.ret[k].id) = call'.ret[k]]_vars

\* Of two active blobs one was matched and returned; the other, matched by
\* no candidate and last seen 500 ms ago, is not returned and stays active.
C27_Witness ==
  /\ Tracked
  /\ Len(call.log) = 1
  /\ Len(call.log[1].before) = 2
  /\ call.log[1].closestId # -1
  /\ Len(call.ret) = 1
  /\ Len(activeBlobs) = 2
  /\ \E i \in 1..2 :
       /\ activeBlobs[i].key # call.ret[1].id
       /\ call.now - activeBlobs[i].val.lastSeen = 500

\* ------------------------------------------------------------------------
\* Properties of the processing scale
\* ------------------------------------------------------------------------
\* The areas of a list of candidates or blobs.
Areas(blobs) == [i \in 1..Len(blobs) |-> blobs[i].area]

\* The candidates that step 3 extracts when the regions found by call c
\* are detected at scale s instead.
CandidatesAtScale(c, s) ==
  CurrentFrameBlobs([i \in 1..Len(c.found) |->
                       AtScale(UpScale(c.found[i], c.scaleFactor), s)],
                    [minArea |-> c.minArea, historyLength |-> c.historyLength],
                    s)

\* C28: the area tested against minArea and the area stored are the contour
\* area times scaleFactor^2: a region is tracked exactly when its
\* full-resolution area exceeds minArea, the stored area is the
\* full-resolution area, and the same regions detected at the other
\* processing scale give the same candidates with the same areas.
C28_AreaScaleIndependent ==
  Tracked =>
    LET s == call.scaleFactor
        large == LargeRegions(call)
    IN /\ Len(call.ret) = Len(large)
       /\ \A k \in 1..Len(call.ret) :
            /\ call.ret[k].area = UpScale(large[k], s).area
            /\ call.ret[k].area = call.log[k].cand.area
            /\ call.ret[k].area > call.minArea
       /\ \A other \in {1, 2} :
            Areas(CandidatesAtScale(call, other)) = Areas(call.ret)

\* At scale 2 a frame held regions of full-resolution area 100 and 104:
\* only the second is tracked, with area 104.
C28_Witness ==
  /\ Tracked
  /\ call.scaleFactor = 2
  /\ call.minArea = 100
  /\ Len(call.found) = 2
  /\ call.found[1].area = 25 /\ call.found[2].area = 26
  /\ Areas(call.ret) = <<104>>

\* ------------------------------------------------------------------------
\* Properties of the matching radius in preview and export
\* ------------------------------------------------------------------------
\* C29: the radius used by a full-resolution call (scaleFactor = 1, the
\* export) is larger than the radius used by a downscaled call
\* (scaleFactor > 1, the preview) on the same footage.
C29_FullResolutionRadiusLarger ==
  Tracked =>
    \A k \in 1..Len(call.log) :
      /\ call.scaleFactor = 1
           => call.log[k].maxDist > MaxDist(PreviewShape.scaleFactor)
      /\ call.scaleFactor > 1
           => MaxDist(ExportShape.scaleFactor) > call.log[k].maxDist

\* The preview matched with radius 200 and the export with radius 100.
C29_PreviewRadiusReached ==
  Tracked /\ call.by = "preview" /\ Len(call.log) > 0
    /\ call.log[1].maxDist = 200

C29_ExportRadiusReached ==
  Tracked /\ call.by = "export" /\ Len(call.log) > 0
    /\ call.log[1].maxDist = 100

\* ------------------------------------------------------------------------
\* Properties of the format negotiation
\* ------------------------------------------------------------------------
\* The candidate formats in order of priority.
PriorityList == Mp4Types \o << WebmVp9, Webm >>

\* The mime type of the run is the first entry of the priority list that
\* the sink supports, and the extension is 'mp4' exactly for an MP4 type.
FirstSupportedChosen(run) ==
  /\ run.mimeType \in supported
  /\ \E i \in 1..Len(PriorityList) :
       /\ PriorityList[i] = run.mimeType
       /\ \A j \in 1..(i - 1) : PriorityList[j] \notin supported
  /\ run.extension = "mp4" <=> IsMp4(run.mimeType)
  /\ run.extension \in {"mp4", "webm"}

\* C30: every export run was started with the first supported entry of the
\* priority list as its mime type, and with the matching extension.
C30_FirstSupportedChosen ==
  \A r \in 1..Len(runs) : FirstSupportedChosen(runs[r])

\* The same when the sink supports at least one of the candidates.
C30_FirstSupportedIfAny ==
  (\E i \in 1..Len(PriorityList) : PriorityList[i] \in supported)
    => C30_FirstSupportedChosen

\* The second MP4 type was chosen before the fourth.
C30_SecondMp4Chosen ==
  \E r \in 1..Len(runs) :
    /\ runs[r].mimeType = Mp4Types[2]
    /\ Mp4Types[4] \in supported
    /\ runs[r].extension = "mp4"

\* ------------------------------------------------------------------------
\* Properties of the paced export loop
\* ------------------------------------------------------------------------
\* The iterations of run that went through to the progress report.
IterationsDone(run) == run.n

\* C31: on the paced path (track.requestFrame available) every iteration
\* of the export loop submits exactly one frame to the sink, after the
\* compositing of that iteration and before its progress report, and
\* reports progress exactly once, with the value min(100, round(100 *
\* currentTime / duration)) of the time before the increment; so frames
\* submitted = progress reports = loop iterations, also for a run that
\* completes.
C31_OneFramePerIteration ==
  \A r \in 1..Len(runs) :
    runs[r].paced =>
      /\ runs[r].frames = IterationsDone(runs[r])
      /\ Len(runs[r].progress) = IterationsDone(runs[r])
      /\ \A k \in 1..Len(runs[r].progress) :
           runs[r].progress[k] = ProgressValue(k - 1, runs[r].duration)
      /\ runs[r].n > 0 =>
           runs[r].steps = << "composite", "requestFrame", "progress" >>
      /\ runs[r].pc # "frameWait"

\* A paced run of the 0.2 s clip has completed: seven iterations, seven
\* frames and seven reports.
C31_Witness ==
  \E r \in 1..Len(runs) :
    /\ runs[r].paced
    /\ runs[r].pc = "done"
    /\ runs[r].duration = 12
    /\ runs[r].n = 7
    /\ runs[r].frames = 7
    /\ runs[r].progress = << 0, 17, 33, 50, 67, 83, 100 >>

\* Where the sink samples the canvas by itself no frame is submitted, and
\* the progress report follows the 1000/60 ms wait.
C31_UnpacedSubmitsNothing ==
  \A r \in 1..Len(runs) :
    ~runs[r].paced =>
      /\ runs[r].frames = 0
      /\ runs[r].steps \in { << >>, << "composite" >>,
                             << "composite", "progress" >> }

\* ------------------------------------------------------------------------
\* Properties of the smoother with respect to tracking
\* ------------------------------------------------------------------------
\* A blob without its display position.
CoreBlob(b) ==
  [id |-> b.id, x |-> b.x, y |-> b.y, w |-> b.w, h |-> b.h,
   area |-> b.area, lastSeen |-> b.lastSeen, history |-> b.history]

\* The active-blob map without the display positions.
CoreMap(m) ==
  [i \in 1..Len(m) |-> [key |-> m[i].key, val |-> CoreBlob(m[i].val)]]

\* The active-blob map with every display position forgotten.
ErasedMap(m) ==
  [i \in 1..Len(m) |->
     [m[i] EXCEPT !.val.visualX = 0, !.val.visualY = 0]]

\* The settings of the last call without jitter, drift, colour mode and
\* showVideo.
TrackingSettingsOf(c) ==
  [minArea |-> c.minArea, historyLength |-> c.historyLength]

\* C32: the smoother is never fed back into tracking.  The drawOverlays
\* call that follows a processFrame call changes only visualX and visualY,
\* and only of the blobs it is given: id, x, y, w, h, area, lastSeen and
\* history of every active blob, the set of active blobs and nextBlobId
\* are as processFrame left them.  And what processFrame does (the blobs
\* it matches, the ids it assigns and returns, the active set it leaves,
\* nextBlobId) is the same when the display positions of the state it
\* starts from are forgotten and the settings carry no jitter and no
\* drift: ids do not depend on jitter, drift or render time.
C32_SmootherNotFedBack ==
  [][TrackingStep =>
       LET c == call'
           whole == Tracking(activeBlobs, nextBlobId, c.found, settings,
                             c.scaleFactor, c.now)
           blind == Tracking(ErasedMap(activeBlobs), nextBlobId, c.found,
                             TrackingSettingsOf(c), c.scaleFactor, c.now)
           given == { c.ret[k].id : k \in 1..Len(c.ret) }
       IN /\ CoreMap(activeBlobs') = CoreMap(whole.activeBlobs)
          /\ nextBlobId' = whole.nextBlobId
          /\ \A i \in 1..Len(activeBlobs') :
               activeBlobs'[i].key \notin given =>
                 activeBlobs'[i] = whole.activeBlobs[i]
          /\ CoreMap(activeBlobs') = CoreMap(blind.activeBlobs)
          /\ nextBlobId' = blind.nextBlobId
          /\ [k \in 1..Len(c.ret) |-> CoreBlob(c.ret[k])]
               = [k \in 1..Len(blind.trackedBlobs) |->
                    CoreBlob(blind.trackedBlobs[k])]
          /\ [k \in 1..Len(c.log) |-> c.log[k].closestId]
               = [k \in 1..Len(blind.log) |-> blind.log[k].closestId]]_vars

\* A blob whose display position lags behind its true position, left so
\* by a drawOverlays call with jitter, has been matched again by a later
\* call and keeps its id.
C32_Witness ==
  /\ Tracked
  /\ call.by = "preview"
  /\ \E k \in 1..Len(call.log), i \in 1..Len(call.drawn) :
       /\ call.log[k].closestId = call.drawn[i].id
       /\ call.drawn[i].prevX # call.log[k].before[1].val.x
       /\ call.drawn[i].visualX # call.drawn[i].x
       /\ call.drawn[i].drawX # call.drawn[i].visualX
       /\ call.drawn[i].jitter = 1

\* ------------------------------------------------------------------------
\* Properties of a cancelled export run
\* ------------------------------------------------------------------------
\* The moves of a run between its awaits once cancellation was signalled.
CancelledMoves ==
  { << "seekWait", "process" >>, << "process", "frameWait" >>,
    << "process", "yield" >>, << "frameWait", "yield" >>,
    << "yield", "stopping" >>, << "stopping", "done" >> }

\* C33: cancellation is observed only at the loop condition after a yield.
\* A run whose cancellation was signalled while an iteration was in flight
\* (in the seek wait, before the processing or in the frame wait) takes
\* that iteration through processFrame and drawOverlays to the yield, and
\* counts it; it leaves the loop from the yield and from nowhere else,
\* never goes from the yield to a further seek, and sets the decoder
\* position to 0 when it leaves.
C33_CancelTakesEffectAtLoopCondition ==
  [][\A r \in 1..Len(runs) :
       runs'[r].cancelled =>
         LET a == runs[r].pc
             b == runs'[r].pc
         IN /\ a # b => << a, b >> \in CancelledMoves
            /\ (a = "process" /\ b # a) =>
                 /\ call'.op = "processFrame"
                 /\ call'.by = "export"
                 /\ Len(call'.drawn) = Len(call'.ret)
            /\ runs'[r].n = IF b = "yield" /\ a # b
                            THEN runs[r].n + 1 ELSE runs[r].n
            /\ (a = "yield" /\ b = "stopping") => vidTime' = 0]_vars

\* A run was cancelled in the seek wait of its second iteration, after its
\* seek to frame 1; it has finished that iteration with its processFrame
\* call, left the loop and put the decoder back to 0.
C33_Witness ==
  \E r \in 1..Len(runs) :
    /\ runs[r].cancelled
    /\ runs[r].cancelledAt = "seekWait"
    /\ runs[r].pc = "stopping"
    /\ runs[r].n = 2
    /\ vidTime = 0
    /\ call.by = "export"

\* ------------------------------------------------------------------------
\* Properties of the assignment order
\* ------------------------------------------------------------------------
\* The ids that the candidates before candidate k of call c were matched to.
MatchedBefore(c, k) ==
  { c.log[j].closestId : j \in { i \in 1..(k - 1) : c.log[i].closestId # -1 } }

\* The candidates of call c that were matched to blob b.
MatchesOf(c, b) == { k \in 1..Len(c.log) : c.log[k].closestId = b }

Reverse(s) == [i \in 1..Len(s) |-> s[Len(s) + 1 - i]]

\* The active blobs that call c would have left, had the backend reported
\* its contours in the opposite order.
ReversedOutcome(c) ==
  Tracking(c.log[1].before,
           nextBlobId - Cardinality({ k \in 1..Len(c.log) :
                                        c.log[k].newId # -1 }),
           Reverse(c.found),
           [minArea |-> c.minArea, historyLength |-> c.historyLength],
           c.scaleFactor, c.now).activeBlobs

\* C34: assignment is greedy in candidate list order.  The blobs excluded
\* for candidate k are exactly those that the earlier candidates of the
\* call were matched to, candidate k is never matched to one of them,
\* however close it is, and so no blob is matched by more than one
\* candidate of a call.
C34_GreedyInListOrder ==
  Tracked =>
    /\ \A k \in 1..Len(call.log) :
         /\ call.log[k].assigned = MatchedBefore(call, k)
         /\ call.log[k].closestId \notin call.log[k].assigned
    /\ \A i \in 1..Len(call.log) :
         call.log[i].closestId # -1 =>
           Cardinality(MatchesOf(call, call.log[i].closestId)) = 1

\* The later of two candidates was closer to a blob than the earlier one,
\* which took it; the later one became a new blob, and with the candidate
\* list in the opposite order the call would have left other blobs.
C34_Witness ==
  /\ Tracked
  /\ \E j, k \in 1..Len(call.log) :
       /\ j < k
       /\ call.log[j].closestId # -1
       /\ \E i \in 1..Len(call.log[k].before) :
            /\ call.log[k].before[i].key = call.log[j].closestId
            /\ MapHas(call.log[1].before, call.log[j].closestId)
            /\ CandDistSq(call.log[k], i) < CandDistSq(call.log[j], i)
       /\ call.log[k].newId # -1
  /\ ReversedOutcome(call) # activeBlobs

\* ------------------------------------------------------------------------
\* Properties of the seek wait
\* ------------------------------------------------------------------------
\* The pending seeks without the one at position k.
WithoutEvent(pending, k) ==
  SubSeq(pending, 1, k - 1) \o SubSeq(pending, k + 1, Len(pending))

\* C35: the seek wait of iteration n is ended only by the 'seeked' event of
\* the seek to n * frameDuration or by its own timeout: whenever a
\* 'seeked' event resumes a waiting run, it is the event of the seek that
\* the run requested for the iteration it is in.
C35_WaitEndsOnOwnSeek ==
  [][\A r \in 1..Len(runs) :
       ( /\ runs[r].pc = "seekWait"
         /\ runs'[r].pc = "process"
         /\ runs'[r].wake = "seeked" )
       => \E k \in 1..Len(seekEvents) :
            /\ seekEvents' = WithoutEvent(seekEvents, k)
            /\ seekEvents[k] = runs[r].n]_vars

\* The seek of an iteration timed out and its event is still outstanding
\* while the run waits for the seek of the next iteration.
C35_StaleEventOutstanding ==
  \E r \in 1..Len(runs) :
    /\ runs[r].pc = "seekWait"
    /\ runs[r].n = 1
    /\ seekEvents = << 0, 1 >>

\* ------------------------------------------------------------------------
\* Properties of the blobs a call does not touch
\* ------------------------------------------------------------------------
\* The ids the candidates of call c were matched to.
MatchedIds(c) ==
  { c.log[k].closestId : k \in { i \in 1..Len(c.log) : c.log[i].closestId # -1 } }

\* C36: an active blob that is neither matched nor pruned in a processFrame
\* call is left completely unchanged by it: it is still in the map under
\* the same key with the same id, position, size, area, lastSeen, history
\* and visualX/visualY.
C36_UntouchedBlobUnchanged ==
  [][TrackingStep =>
       \A i \in 1..Len(activeBlobs) :
         LET id == activeBlobs[i].key
         IN (id \notin MatchedIds(call') /\ MapHas(activeBlobs', id)) =>
              MapGet(activeBlobs', id) = activeBlobs[i].val]_vars

\* A call matched one blob and left another one, last seen before the
\* call, in the map as it was.
C36_Witness ==
  /\ Tracked
  /\ MatchedIds(call) # {}
  /\ \E i \in 1..Len(call.log[1].before) :
       LET b == call.log[1].before[i]
       IN /\ b.key \notin MatchedIds(call)
          /\ b.val.lastSeen < call.now
          /\ MapHas(activeBlobs, b.key)
          /\ MapGet(activeBlobs, b.key) = b.val

\* ------------------------------------------------------------------------
\* Properties of the last progress report
\* ------------------------------------------------------------------------
\* The run has left its loop.
LoopLeft(run) == run.pc \in {"stopping", "done"}

\* The last value the run passed to onRenderProgress.
LastProgress(run) == run.progress[Len(run.progress)]

\* C37 as stated: no progress report is made after the export loop exits,
\* so the last progress value of a run of N iterations is
\* min(100, round(100 * (N-1) * frameDuration / duration)), and it is below
\* 100 whenever the run has fewer than 200 frames.
C37_LastProgressBelowHundred ==
  \A r \in 1..Len(runs) :
    LoopLeft(runs[r]) =>
      /\ Len(runs[r].progress) = runs[r].n
      /\ LastProgress(runs[r])
           = ProgressValue(runs[r].n - 1, runs[r].duration)
      /\ runs[r].n < 200 => LastProgress(runs[r]) < 100

\* C37, amended: no progress report is made after the export loop exits,
\* so the last progress value of a run of N iterations is
\* min(100, round(100 * (N-1) * frameDuration / duration)); it is below
\* 100 exactly when (N-1) * frameDuration < 0.995 * duration (the duration
\* is counted in half frames), which some runs of fewer than 200 frames
\* do not satisfy.
C37_LastProgressOfLastIteration ==
  \A r \in 1..Len(runs) :
    LoopLeft(runs[r]) =>
      /\ runs[r].n >= 1
      /\ Len(runs[r].progress) = runs[r].n
      /\ LastProgress(runs[r])
           = ProgressValue(runs[r].n - 1, runs[r].duration)
      /\ LastProgress(runs[r]) < 100
           <=> 400 * (runs[r].n - 1) < 199 * runs[r].duration

\* The 3.35 s clip was exported in 101 iterations, 101 reports were made
\* and the last one was 100.
C37_Witness ==
  \E r \in 1..Len(runs) :
    /\ runs[r].pc = "done"
    /\ runs[r].duration = 201 /\ runs[r].n = 101
    /\ Len(runs[r].progress) = 101
    /\ LastProgress(runs[r]) = 100

\* The 2.0 s clip was exported in 60 iterations and the last report was
\* 98.
C37_TwoSecondsBelow ==
  \E r \in 1..Len(runs) :
    /\ runs[r].pc = "done"
    /\ runs[r].duration = 120 /\ runs[r].n = 60
    /\ LastProgress(runs[r]) = 98

\* The 0.2 s clip has run to its end in seven iterations.
C37_ShortClipDone ==
  \E r \in 1..Len(runs) :
    /\ runs[r].pc = "done"
    /\ runs[r].duration = 12 /\ runs[r].n = 7
    /\ LastProgress(runs[r]) = 100

\* ------------------------------------------------------------------------
\* Properties of the tracker state
\* ------------------------------------------------------------------------
\* Every key of the map holds the blob of that id, the keys are distinct
\* and lie between 1 and nextBlobId - 1.
ActiveBlobsWellKeyed ==
  /\ \A i \in 1..Len(activeBlobs) :
       /\ activeBlobs[i].val.id = activeBlobs[i].key
       /\ 1 <= activeBlobs[i].key
       /\ activeBlobs[i].key < nextBlobId
  /\ \A i, j \in 1..Len(activeBlobs) :
       i # j => activeBlobs[i].key # activeBlobs[j].key

\* C38: in every reachable tracker state each key k of the active-blob map
\* maps to a blob whose id is k, every active id satisfies
\* 1 <= id < nextBlobId, and nextBlobId never decreases: cleanup() does
\* not reset it.
C38_KeysAreIdsBelowCounter ==
  /\ []ActiveBlobsWellKeyed
  /\ [][ /\ nextBlobId' >= nextBlobId
         /\ call'.op = "cleanup" =>
              nextBlobId' = nextBlobId /\ activeBlobs' = activeBlobs ]_vars

\* cleanup() was called on a tracker that holds blobs 2 and 3, after blob 1
\* had been pruned.
C38_Witness ==
  /\ call.op = "cleanup"
  /\ nextBlobId = 4
  /\ MapKeys(activeBlobs) = {2, 3}

====
